---- MODULE Spec2Model ----
(***************************************************************************)
(* NanoBanana backend: API-key lifecycle, bearer authentication and the    *)
(* per-key daily usage counter.                                            *)
(*                                                                         *)
(* Every HTTP request runs in its own SQLAlchemy session (get_db): the     *)
(* handler's statements are flushed into the session's open transaction    *)
(* and the transaction is committed when the handler returned, or rolled   *)
(* back when it raised.  The store is the configured PostgreSQL database   *)
(* (config.py) at its default isolation level READ COMMITTED: a SELECT     *)
(* reads the committed rows overlaid with the session's own flushed        *)
(* writes, an UPDATE waits while another open transaction holds an         *)
(* uncommitted write of the row, and an INSERT that collides with a        *)
(* unique index fails against a committed row and waits on an uncommitted  *)
(* one.                                                                    *)
(***************************************************************************)
EXTENDS Integers, Sequences, FiniteSets, TLC

\* ------------------------------------------------------------------ bounds
MaxReq == 2       \* requests (each with its own session) in one behaviour
MaxSecrets == 2   \* distinct values the random source of token_hex may return
MaxUsers == 2     \* owner identities presented by the session mechanism

MaxCount == 2     \* largest image_count of a usage record the ledger starts with
MaxLimit == 2     \* largest daily_limit a caller passes to check_daily_limit
MaxKeys == 6      \* most keys one owner holds when the usage reports are read

Requests == 1..MaxReq
Users == 1..MaxUsers

\* ------------------------------------------------------- key material
KeyLen == 40          \* len(api_key_str) != 40
TokenHexBytes == 16   \* secrets.token_hex(16)
PrefixLen == 8        \* full_key[:8]

HexDigits == {"0", "1", "2", "3", "4", "5", "6", "7", "8", "9",
              "a", "b", "c", "d", "e", "f"}

\* the literal "nb_live_"
NbLive == <<"n", "b", "_", "l", "i", "v", "e", "_">>

Repeat(c, n) == [i \in 1..n |-> c]

\* The values secrets.token_hex(16) may return: 2 * 16 lowercase hex characters.
\* The model's random source draws from MaxSecrets of them.
HexSeq == <<"0", "1", "2", "3", "4", "5", "6", "7", "8", "9",
            "a", "b", "c", "d", "e", "f">>
SecretDigit(i) == HexSeq[(i % 16) + 1]
token_hex(i) == Repeat(SecretDigit(i), 2 * TokenHexBytes)

\* startswith
StartsWith(s, p) == Len(s) >= Len(p) /\ SubSeq(s, 1, Len(p)) = p

\* Credentials a caller may present: every plaintext the generator can issue,
\* one that is too short, one of the right length with another prefix, and one
\* with the right prefix and length whose suffix is not hexadecimal.
ShortToken == NbLive \o Repeat("0", 27)
WrongPrefixToken == <<"s", "k", "_", "l", "i", "v", "e", "_">> \o Repeat("0", 32)
NonHexToken == NbLive \o Repeat("Z", 32)
IssuableTokens == {NbLive \o token_hex(i) : i \in 1..MaxSecrets}
Tokens == IssuableTokens \cup {ShortToken, WrongPrefixToken, NonHexToken}

\* hashlib.sha256(...).hexdigest(): a deterministic digest, modelled as an
\* injection of the credentials into digest numbers (collision resistance).
TokenOrder == <<ShortToken, WrongPrefixToken, NonHexToken>>
                 \o [i \in 1..(MaxSecrets + MaxKeys) |-> NbLive \o token_hex(i)]
Sha256(s) == CHOOSE i \in DOMAIN TokenOrder : TokenOrder[i] = s

\* A generator that keeps as many characters for display as the column holds.
generate_api_key_long_prefix(random_part) ==
    LET full_key == NbLive \o random_part
    IN  [full_key |-> full_key,
         key_hash |-> Sha256(full_key),
         prefix   |-> SubSeq(full_key, 1, PrefixLen + 2)]

generate_api_key(random_part) ==
    LET full_key == NbLive \o random_part
    IN  [full_key |-> full_key,
         key_hash |-> Sha256(full_key),
         prefix   |-> SubSeq(full_key, 1, PrefixLen)]

\* The specification's well-formedness of a credential: the literal prefix,
\* the fixed length and a lowercase hexadecimal remainder.
WellFormed(s) ==
    /\ Len(s) = KeyLen
    /\ StartsWith(s, NbLive)
    /\ \A i \in (PrefixLen + 1)..Len(s) : s[i] \in HexDigits

\* An authenticator without a format stage.
key_format_unchecked(s) == TRUE

\* The format test of get_api_key_from_header.
KeyFormatOk(s) == StartsWith(s, NbLive) /\ Len(s) = KeyLen

\* ------------------------------------------------------- HTTP headers
\* An Authorization header: absent, or the words auth_header.split() yields
\* (a scheme word followed by credentials).
NoHeader == [present |-> FALSE, parts |-> <<>>]
Header(parts) == [present |-> TRUE, parts |-> parts]
Headers == {NoHeader, Header(<<"Bearer">>)}
             \cup {Header(<<"Basic", NbLive \o token_hex(1)>>)}
             \cup {Header(<<"Bearer", t>>) : t \in Tokens}

\* str.lower() on the scheme words that occur
Lower(w) == CASE w = "Bearer" -> "bearer"
              [] w = "Basic" -> "basic"
              [] OTHER -> w

\* -------------------------------------------------------------- rows
Null == 0
NoRow == [id |-> 0]
NoResp == [status |-> 0, detail |-> "", id |-> 0, key |-> <<>>]
Resp(status, detail) == [status |-> status, detail |-> detail, id |-> 0, key |-> <<>>]

\* The body of a response that carries data (none for the other responses).
NoBody == [key_id |-> 0, key_name |-> "", key_prefix |-> <<>>,
           total_images |-> 0, daily_usage |-> {}]

VARIABLES
    apiKeys,   \* committed rows of table api_keys
    usage,     \* committed rows of table usage
    tx,        \* per request: the flushed, uncommitted writes of its session
    req,       \* per request: kind, inputs, position, loaded objects, response
    issued,    \* the create responses sent: key id, owner and plaintext
    now,       \* datetime.now(timezone.utc), a logical clock
    today,     \* date.today()
    users      \* committed rows of table users

vars == <<apiKeys, usage, tx, req, issued, now, today, users>>

NoTx == [newKeys |-> {}, keyUpd |-> {}, newUsage |-> {}, usageUpd |-> {},
         newUsers |-> {}]

\* The addresses register requests carry, as UserRegisterRequest validated
\* them, one for each user; none in the other requests.
NoEmail == <<>>
Email(i) == <<"user", i, "@example.com">>
Emails == {Email(i) : i \in Users}

\* The account of user i, registered before the service started.
UserRow(i) == [id |-> i, email |-> Email(i)]

\* What the image provider does when it is called, and whether its key is
\* configured; none before generate_image runs.
NoProvider == [configured |-> FALSE, raised |-> "", text |-> <<>>, images |-> ""]

\* The names a create request may carry: none (or the empty string), or one.
\* name or "Default Key"
DefaultName == "Default Key"
Names == {"", "My Key"}
key_name(name) == IF name = "" THEN DefaultName ELSE name

IdleReq == [kind |-> "idle", pc |-> "idle", user |-> 0, header |-> NoHeader,
            key_id |-> 0, count |-> 0, api_key |-> NoRow, usage_record |-> NoRow,
            resp |-> NoResp, looked_up |-> FALSE, seen |-> {}, revoked_before |-> {},
            touch_failed |-> FALSE, touched_at |-> Null,
            usage_call |-> FALSE, fresh |-> FALSE, body |-> NoBody,
            daily_limit |-> 0, read_count |-> 0, overlapped |-> FALSE,
            outcome |-> "", generated |-> FALSE, within_limit |-> FALSE,
            days |-> 0, provider |-> NoProvider, provider_called |-> FALSE,
            email |-> NoEmail, registered_before |-> FALSE]

\* The service starts on an empty store, or on a store that earlier requests
\* left behind: a key issued to user 1 (create_key), active or revoked
\* (delete_key), unused or with one image counted today (increment_usage).
SeedKeyId == MaxReq + 1
SeedUsageId == MaxReq + 2
SeedToken == NbLive \o token_hex(1)
SeedKey == [id |-> SeedKeyId, user_id |-> 1, key_hash |-> Sha256(SeedToken),
            name |-> DefaultName,
            prefix |-> SubSeq(SeedToken, 1, PrefixLen), is_active |-> TRUE,
            last_used_at |-> Null, updated_at |-> 0]
SeedUsage == [id |-> SeedUsageId, api_key_id |-> SeedKeyId, usage_date |-> 1,
              image_count |-> 1]
SeedIssued == [id |-> SeedKeyId, user_id |-> 1, key |-> SeedToken]

Init ==
    /\ \/ apiKeys = {} /\ usage = {} /\ issued = {}
       \/ /\ \E active \in BOOLEAN : apiKeys = {[SeedKey EXCEPT !.is_active = active]}
          /\ usage \in {{}, {SeedUsage}}
          /\ issued = {SeedIssued}
    /\ tx = [r \in Requests |-> NoTx]
    /\ req = [r \in Requests |-> IdleReq]
    /\ now = 1
    /\ today = 1
    /\ users = {UserRow(i) : i \in Users}

\* ------------------------------------------------------------ sessions
\* The value of column col of the row id under the pending updates upd.
Col(upd, id, col, committed) ==
    IF \E u \in upd : u.id = id /\ u.col = col
    THEN (CHOOSE u \in upd : u.id = id /\ u.col = col).val
    ELSE committed

ApplyKeyUpd(row, upd) ==
    [row EXCEPT !.is_active = Col(upd, row.id, "is_active", row.is_active),
                !.last_used_at = Col(upd, row.id, "last_used_at", row.last_used_at),
                !.updated_at = Col(upd, row.id, "updated_at", row.updated_at)]

ApplyUsageUpd(row, upd) ==
    [row EXCEPT !.image_count = Col(upd, row.id, "image_count", row.image_count)]

\* What a SELECT of session r reads: the committed rows overlaid with the
\* session's own flushed writes.
KeyView(r) == {ApplyKeyUpd(k, tx[r].keyUpd) : k \in apiKeys} \cup tx[r].newKeys
UsageView(r) == {ApplyUsageUpd(u, tx[r].usageUpd) : u \in usage} \cup tx[r].newUsage

\* A store whose UPDATE of a key row never waits for another transaction.
KeyNeverLocked(r, id) == FALSE

\* Another open transaction holds an uncommitted write of the row.
KeyLocked(r, id) ==
    \E t \in Requests \ {r} : \E u \in tx[t].keyUpd : u.id = id
UsageLocked(r, id) ==
    \E t \in Requests \ {r} : \E u \in tx[t].usageUpd : u.id = id

\* A usage table created without its unique constraint.
uq_usage_missing(rows, api_key_id, usage_date) == {}

\* Usage.__table_args__: UniqueConstraint("api_key_id", "usage_date").
\* The rows an INSERT of (api_key_id, usage_date) collides with.
uq_usage_api_key_date(rows, api_key_id, usage_date) ==
    {u \in rows : u.api_key_id = api_key_id /\ u.usage_date = usage_date}

\* ApiKey.key_hash: unique=True.
uq_key_hash(rows, key_hash) == {k \in rows : k.key_hash = key_hash}

PendingUsage(r) == UNION {tx[t].newUsage : t \in Requests \ {r}}
PendingKeys(r) == UNION {tx[t].newKeys : t \in Requests \ {r}}

\* get_db: the handler of request r, whose record is q, raised: the session
\* is rolled back and the response is the error's.
Raise(r, q, resp) ==
    /\ tx' = [tx EXCEPT ![r] = NoTx]
    /\ req' = [req EXCEPT ![r] = [q EXCEPT !.pc = "done", !.resp = resp]]

\* The record of a request as it arrives; overlapped tells whether another
\* request was being handled at that moment.
Arrived(kind, user, header, key_id, count) ==
    [IdleReq EXCEPT !.kind = kind, !.user = user, !.header = header,
                    !.key_id = key_id, !.count = count,
                    !.overlapped = \E q \in Requests :
                                      req[q].pc \notin {"idle", "done"}]

\* Requests arrive in the order of their numbers (the numbers are labels);
\* any number of them is handled at the same time.
CanStart(r) ==
    /\ req[r].kind = "idle"
    /\ \A q \in Requests : q < r => req[q].kind # "idle"

\* get_db: the handler returned, the session is committed.
Commit(r) ==
    /\ req[r].pc = "commit"
    /\ apiKeys' = {ApplyKeyUpd(k, tx[r].keyUpd) : k \in apiKeys} \cup tx[r].newKeys
    /\ usage' = {ApplyUsageUpd(u, tx[r].usageUpd) : u \in usage} \cup tx[r].newUsage
    /\ users' = users \cup tx[r].newUsers
    /\ tx' = [tx EXCEPT ![r] = NoTx]
    /\ req' = [req EXCEPT ![r].pc = "done"]
    /\ UNCHANGED <<issued, now, today>>

\* ---------------------------------------------- POST /v1/auth/register
\* A users table created without its unique index.
uq_users_email_missing(rows, email) == {}

\* User.email: unique=True.  The rows an INSERT of email collides with.
uq_users_email(rows, email) == {u \in rows : u.email = email}

PendingUsers(r) == UNION {tx[t].newUsers : t \in Requests \ {r}}
UserView(r) == users \cup tx[r].newUsers

\* select(User).where(User.email == email)
get_user_by_email(rows, email) == {u \in rows : u.email = email}

\* User.id: a fresh uuid4, here a number no other user has.
NewUserId(r) == MaxUsers + r

\* A register request arrives; registered_before tells whether the address
\* belonged to a user at that moment.
Register(r, email) ==
    /\ CanStart(r)
    /\ req' = [req EXCEPT ![r] =
                 [Arrived("register", 0, NoHeader, 0, 0) EXCEPT
                    !.pc = "get_user_by_email", !.email = email,
                    !.registered_before = \E u \in users : u.email = email]]
    /\ UNCHANGED <<apiKeys, usage, tx, issued, now, today, users>>

\* register: existing_user = await get_user_by_email(db, request.email);
\* 409 when there is one.
RegisterLookup(r) ==
    /\ req[r].pc = "get_user_by_email"
    /\ IF get_user_by_email(UserView(r), req[r].email) # {}
       THEN Raise(r, req[r], Resp(409, "Email already registered"))
       ELSE /\ req' = [req EXCEPT ![r].pc = "create_user"]
            /\ UNCHANGED tx
    /\ UNCHANGED <<apiKeys, usage, issued, now, today, users>>

\* create_user: db.add(user); await db.flush().  The INSERT waits for an
\* uncommitted row with the same address, and fails with IntegrityError,
\* which nothing handles, on a committed one.  The response carries the id.
CreateUser(r) ==
    /\ req[r].pc = "create_user"
    /\ LET user == [id |-> NewUserId(r), email |-> req[r].email]
       IN  IF uq_users_email(users, user.email) # {}
           THEN Raise(r, req[r], Resp(500, "Internal Server Error"))
           ELSE /\ uq_users_email(PendingUsers(r), user.email) = {}
                /\ tx' = [tx EXCEPT ![r].newUsers = @ \cup {user}]
                /\ req' = [req EXCEPT ![r].pc = "commit",
                                      ![r].resp = [Resp(201, "") EXCEPT !.id = user.id]]
    /\ UNCHANGED <<apiKeys, usage, issued, now, today, users>>

\* ------------------------------------------------------ POST /v1/keys
\* create_api_key and the response of create_key.  The INSERT is flushed;
\* the new id is a fresh uuid4, here the number of the creating request.
CreateApiKey(r, user, name) ==
    /\ CanStart(r)
    /\ \E i \in 1..MaxSecrets :
         LET g == generate_api_key(token_hex(i))
             row == [id |-> r, user_id |-> user, key_hash |-> g.key_hash,
                     name |-> key_name(name),
                     prefix |-> g.prefix, is_active |-> TRUE, last_used_at |-> Null,
                     updated_at |-> now]
             q == Arrived("create_key", user, NoHeader, 0, 0)
         IN  IF uq_key_hash(apiKeys, g.key_hash) # {}
             THEN /\ Raise(r, q, Resp(500, "Internal Server Error"))
                  /\ UNCHANGED issued
             ELSE /\ uq_key_hash(PendingKeys(r), g.key_hash) = {}
                  /\ issued' = issued \cup {[id |-> row.id, user_id |-> user,
                                              key |-> g.full_key]}
                  /\ tx' = [tx EXCEPT ![r].newKeys = @ \cup {row}]
                  /\ req' = [req EXCEPT ![r] =
                                [q EXCEPT !.pc = "commit", !.api_key = row,
                                          !.resp = [status |-> 201, detail |-> "",
                                                    id |-> row.id, key |-> g.full_key]]]
    /\ UNCHANGED <<apiKeys, usage, now, today, users>>

\* -------------------------------------------------------- GET /v1/keys
\* A response model that exposes the stored digest.
KeyResponseWithHash(key) ==
    [id |-> key.id, name |-> key.name, prefix |-> key.prefix,
     is_active |-> key.is_active, last_used_at |-> key.last_used_at,
     key_hash |-> key.key_hash]

\* KeyResponse(id=key.id, name=key.name, prefix=key.prefix, ...); created_at,
\* which only orders the list, is not represented.
KeyResponse(key) ==
    [id |-> key.id, name |-> key.name, prefix |-> key.prefix,
     is_active |-> key.is_active, last_used_at |-> key.last_used_at]

\* select(ApiKey).where(ApiKey.user_id == user_id)
get_user_keys(rows, user_id) == {k \in rows : k.user_id = user_id}

\* list_keys: the keys of the user, each as a KeyResponse
ListKeys(r, user) ==
    /\ CanStart(r)
    /\ req' = [req EXCEPT ![r] =
                 [Arrived("list_keys", user, NoHeader, 0, 0) EXCEPT
                    !.pc = "commit", !.resp = Resp(200, ""),
                    !.body = [keys |-> {KeyResponse(key) :
                                          key \in get_user_keys(KeyView(r), user)}]]]
    /\ UNCHANGED <<apiKeys, usage, tx, issued, now, today, users>>

\* ------------------------------------------- DELETE /v1/keys/{key_id}
\* Key ids a caller can name: the ids create responses returned, and one that
\* no key has.
NoSuchId == 0
KnownKeyIds == {i.id : i \in issued}

\* result.scalar_one_or_none(): the row, None, or MultipleResultsFound
MultipleRows == [id |-> -1]
scalar_one_or_none(rows) ==
    IF rows = {} THEN NoRow
    ELSE IF Cardinality(rows) = 1 THEN CHOOSE x \in rows : TRUE
    ELSE MultipleRows

\* A revoke that does not verify the owner.
revoke_key_select_any_owner(rows, key_id, user_id) ==
    scalar_one_or_none({k \in rows : k.id = key_id})

\* revoke_key, its SELECT: the key of that id and owner
revoke_key_select(rows, key_id, user_id) ==
    scalar_one_or_none({k \in rows : k.id = key_id /\ k.user_id = user_id})

\* revoke_key up to its flush; delete_key raises 404 when it returned False.
RevokeKey(r, user, key_id) ==
    /\ CanStart(r)
    /\ LET api_key == revoke_key_select(KeyView(r), key_id, user)
           q == Arrived("delete_key", user, NoHeader, key_id, 0)
       IN  IF api_key = NoRow
           THEN Raise(r, q, Resp(404, "API key not found"))
           ELSE /\ req' = [req EXCEPT ![r] =
                             [q EXCEPT !.pc = "revoke_flush", !.api_key = api_key]]
                /\ UNCHANGED tx
    /\ UNCHANGED <<apiKeys, usage, issued, now, today, users>>

\* A revoke that flips the flag.
revoked_value_toggled(api_key) == ~api_key.is_active

\* api_key.is_active = False: the value revoke_key assigns
revoked_value(api_key) == FALSE

\* A revoke that also stamps the key as used.
revoke_key_updates_with_touch(api_key, at) ==
    {[id |-> api_key.id, col |-> "is_active", val |-> revoked_value(api_key)],
     [id |-> api_key.id, col |-> "updated_at", val |-> at],
     [id |-> api_key.id, col |-> "last_used_at", val |-> at]}

\* The UPDATE revoke_key's flush emits: the changed column is_active, and
\* updated_at, which ApiKey declares with onupdate=func.now().
revoke_key_updates(api_key, at) ==
    {[id |-> api_key.id, col |-> "is_active", val |-> revoked_value(api_key)],
     [id |-> api_key.id, col |-> "updated_at", val |-> at]}

\* The pending updates upd of a session, overwritten with the updates new.
Overwrite(upd, new) ==
    {u \in upd : ~\E n \in new : n.id = u.id /\ n.col = u.col} \cup new

\* api_key.is_active = False; await db.flush(); return True.  The flush emits
\* no UPDATE when the attribute did not change.
RevokeFlush(r) ==
    /\ req[r].pc = "revoke_flush"
    /\ LET id == req[r].api_key.id
           is_active == revoked_value(req[r].api_key)
       IN  /\ IF req[r].api_key.is_active # is_active
              THEN /\ ~KeyLocked(r, id)
                   /\ tx' = [tx EXCEPT ![r].keyUpd =
                               Overwrite(@, revoke_key_updates(req[r].api_key, now))]
              ELSE UNCHANGED tx
           /\ req' = [req EXCEPT ![r].pc = "commit",
                                 ![r].api_key.is_active = is_active,
                                 ![r].resp = Resp(204, "")]
    /\ UNCHANGED <<apiKeys, usage, issued, now, today, users>>

\* ------------------------------------------------ API-key authentication
\* An authenticator that answers its failures with another status.
Forbidden(detail) == Resp(403, detail)

\* raise HTTPException(status_code=status.HTTP_401_UNAUTHORIZED, detail=...)
Unauthorized(detail) == Resp(401, detail)

\* A lookup that compares the display prefix instead of the digest.
get_key_by_prefix(rows, key_hash) ==
    scalar_one_or_none({k \in rows : k.prefix = NbLive})

get_key_by_hash(rows, key_hash) ==
    scalar_one_or_none({k \in rows : k.key_hash = key_hash})

\* An authenticator that does not look at is_active.
revoked_ignored(api_key) == FALSE

\* if not api_key.is_active
revoked(api_key) == ~api_key.is_active

\* get_api_key_from_header up to update_last_used: the response it raises
\* (none on success), the key it resolved and whether the store was queried.
get_api_key_from_header(header, rows) ==
    LET Reject(detail, looked) ==
            [resp |-> Unauthorized(detail), api_key |-> NoRow, looked_up |-> looked]
    IN  IF ~header.present
        THEN Reject("Missing Authorization header", FALSE)
        ELSE IF Len(header.parts) # 2 \/ Lower(header.parts[1]) # "bearer"
        THEN Reject("Invalid Authorization header format", FALSE)
        ELSE IF ~KeyFormatOk(header.parts[2])
        THEN Reject("Invalid API key format", FALSE)
        ELSE LET api_key == get_key_by_hash(rows, Sha256(header.parts[2]))
             IN  IF api_key = MultipleRows
                 THEN [resp |-> Resp(500, "Internal Server Error"),
                       api_key |-> NoRow, looked_up |-> TRUE]
                 ELSE IF api_key = NoRow
                 THEN Reject("Invalid API key", TRUE)
                 ELSE IF revoked(api_key)
                 THEN Reject("API key has been revoked", TRUE)
                 ELSE [resp |-> NoResp, api_key |-> api_key, looked_up |-> TRUE]

\* Keys whose revoke_key has returned True to delete_key.
RevokeReturned ==
    {req[v].key_id : v \in {v \in Requests : req[v].kind = "delete_key"
                                              /\ req[v].resp.status = 204}}

\* --------------------------------------------------- POST /v1/generate
\* The dependency get_api_key_from_header, up to its call of update_last_used.
Authenticate(r, header) ==
    /\ CanStart(r)
    /\ LET a == get_api_key_from_header(header, KeyView(r))
           q == [Arrived("generate", 0, header, 0, 0) EXCEPT
                    !.looked_up = a.looked_up,
                    !.revoked_before = RevokeReturned,
                    !.seen = IF a.looked_up
                             THEN {[id |-> k.id, is_active |-> k.is_active] :
                                     k \in apiKeys}
                             ELSE {}]
       IN  IF a.resp # NoResp
           THEN Raise(r, q, a.resp)
           ELSE /\ req' = [req EXCEPT ![r] =
                             [q EXCEPT !.pc = "update_last_used",
                                       !.api_key = a.api_key]]
                /\ UNCHANGED tx
    /\ UNCHANGED <<apiKeys, usage, issued, now, today, users>>

\* The UPDATE update_last_used's flush emits: last_used_at, and updated_at
\* by its onupdate.
update_last_used(api_key, at) ==
    {[id |-> api_key.id, col |-> "last_used_at", val |-> at],
     [id |-> api_key.id, col |-> "updated_at", val |-> at]}

\* A handler that records the use before it generates the image.
UpdateLastUsedThenRecord(r) ==
    /\ req[r].pc = "update_last_used"
    /\ ~KeyLocked(r, req[r].api_key.id)
    /\ tx' = [tx EXCEPT ![r].keyUpd =
                Overwrite(@, update_last_used(req[r].api_key, now))]
    /\ req' = [req EXCEPT ![r].pc = "record_usage",
                          ![r].api_key.last_used_at = now, ![r].touched_at = now]
    /\ now' = now + 1
    /\ UNCHANGED <<apiKeys, usage, issued, today, users>>

\* update_last_used: api_key.last_used_at = datetime.now(); await db.flush().
\* Then get_api_key_from_header returns the key.
UpdateLastUsed(r) ==
    /\ req[r].pc = "update_last_used"
    /\ ~KeyLocked(r, req[r].api_key.id)
    /\ tx' = [tx EXCEPT ![r].keyUpd =
                Overwrite(@, update_last_used(req[r].api_key, now))]
    /\ req' = [req EXCEPT ![r].pc = "generate_image",
                          ![r].api_key.last_used_at = now, ![r].touched_at = now]
    /\ now' = now + 1
    /\ UNCHANGED <<apiKeys, usage, issued, today, users>>

\* The flush of update_last_used raises (the store failed): nothing in
\* get_api_key_from_header or update_last_used catches it.
UpdateLastUsedFails(r) ==
    /\ req[r].pc = "update_last_used"
    /\ tx' = [tx EXCEPT ![r] = NoTx]
    /\ req' = [req EXCEPT ![r].pc = "done", ![r].touch_failed = TRUE,
                          ![r].resp = Resp(500, "Internal Server Error")]
    /\ UNCHANGED <<apiKeys, usage, issued, now, today, users>>

\* What a call of the image provider can come to: the key is not configured,
\* image bytes, an empty list of images, an image without bytes, a client
\* error that names a quota, another client error, a server error, another
\* API error, any other exception.
ProviderOutcomes ==
    {"not_configured", "image", "no_images", "no_image_data", "rate_limited",
     "client_error", "server_error", "api_error", "unexpected"}

\* A generate_image that returns empty bytes when the provider fails.
generate_image_swallows(outcome) == NoResp

\* generate_image: the HTTPException it raises, none when it returns the
\* image bytes.  The details end in the provider's message.
generate_image(outcome) ==
    CASE outcome = "not_configured" ->
             Resp(503, "Image generation service not configured")
      [] outcome = "image" -> NoResp
      [] outcome = "no_images" ->
             Resp(502, "Image generation failed: no images returned")
      [] outcome = "no_image_data" ->
             Resp(502, "Image generation failed: no image data returned")
      [] outcome = "rate_limited" ->
             Resp(429, "Rate limit exceeded. Please try again later. Details: ")
      [] outcome = "client_error" ->
             Resp(400, "Invalid request to image generation service: ")
      [] outcome = "server_error" ->
             Resp(502, "Image generation service temporarily unavailable: ")
      [] outcome = "api_error" -> Resp(502, "Image generation failed: ")
      [] outcome = "unexpected" -> Resp(502, "Image generation failed: ")

\* The messages of the provider's errors, as the words of str(e): the
\* status code and the reason.
ErrorTexts ==
    {<<"400", "INVALID_ARGUMENT">>,
     <<"429", "RESOURCE_EXHAUSTED">>,
     <<"400", "Quota", "exceeded">>,
     <<"400", "Rate", "Limit", "reached">>,
     <<"403", "limit", "the", "rate">>}

\* str.lower(), word by word
LowerWord(w) == CASE w = "Quota" -> "quota"
                  [] w = "Rate" -> "rate"
                  [] w = "Limit" -> "limit"
                  [] w = "INVALID_ARGUMENT" -> "invalid_argument"
                  [] w = "RESOURCE_EXHAUSTED" -> "resource_exhausted"
                  [] OTHER -> w
LowerText(text) == [i \in 1..Len(text) |-> LowerWord(text[i])]

\* needle in error_str
Contains(text, needle) ==
    \E i \in 1..Len(text) :
        i + Len(needle) - 1 <= Len(text)
        /\ SubSeq(text, i, i + Len(needle) - 1) = needle

\* A test that looks at the status code only.
is_rate_limit_by_code(text) == text[1] = "429"

\* "429" in error_str or "quota" in error_str or "rate limit" in error_str
is_rate_limit(text) ==
    LET error_str == LowerText(text)
    IN  \/ Contains(error_str, <<"429">>)
        \/ Contains(error_str, <<"quota">>)
        \/ Contains(error_str, <<"rate", "limit">>)

\* The exceptions the call of the provider raises ("none": it returns), the
\* classes as generate_image's except clauses tell them apart, and what a
\* response holds: no image, an image without bytes, image bytes.
Raisable == {"none", "ClientError", "ServerError", "APIError", "Exception"}
ImageResults == {"empty", "no_data", "bytes"}

\* The cases of a call: with the key not configured, whatever the provider
\* would do; a response of each kind; a client error with each message; the
\* other errors with a plain message and with one that names a quota.
ProviderCases ==
    {[configured |-> FALSE, raised |-> x, text |-> <<"429", "RESOURCE_EXHAUSTED">>,
      images |-> "bytes"] : x \in Raisable}
    \cup {[configured |-> TRUE, raised |-> "none", text |-> <<>>, images |-> i] :
            i \in ImageResults}
    \cup {[configured |-> TRUE, raised |-> "ClientError", text |-> t,
           images |-> "bytes"] : t \in ErrorTexts}
    \cup {[configured |-> TRUE, raised |-> x, text |-> t, images |-> "bytes"] :
            x \in {"ServerError", "APIError", "Exception"},
            t \in {<<"400", "INVALID_ARGUMENT">>, <<"400", "Quota", "exceeded">>}}

\* generate_image: the branch it ends in
provider_outcome(p) ==
    IF ~p.configured THEN "not_configured"
    ELSE CASE p.raised = "ClientError" ->
                  IF is_rate_limit(p.text) THEN "rate_limited" ELSE "client_error"
           [] p.raised = "ServerError" -> "server_error"
           [] p.raised = "APIError" -> "api_error"
           [] p.raised = "Exception" -> "unexpected"
           [] p.raised = "none" ->
                  IF p.images = "empty" THEN "no_images"
                  ELSE IF p.images = "no_data" THEN "no_image_data"
                  ELSE "image"

\* One case for each branch of generate_image.
ProviderResults ==
    {CHOOSE p \in ProviderCases : provider_outcome(p) = outcome :
        outcome \in ProviderOutcomes}

\* generate calls generate_image first: no handler calls check_daily_limit,
\* and no setting turns a limit check on.
LimitEnforcement == FALSE

\* generate: await generate_image(...); when it raised, the handler ends;
\* otherwise upload_to_r2 or create_base64_url give the url, neither raises.
\* The provider is called only when its key is configured.
GenerateImage(r, p) ==
    /\ req[r].pc = "generate_image"
    /\ LET outcome == provider_outcome(p)
           raised == generate_image(outcome)
           q == [req[r] EXCEPT !.outcome = outcome, !.provider = p,
                               !.provider_called = p.configured]
       IN  IF raised # NoResp
           THEN Raise(r, q, raised)
           ELSE /\ req' = [req EXCEPT ![r] = [q EXCEPT !.pc = "record_usage",
                                                       !.generated = TRUE]]
                /\ UNCHANGED tx
    /\ UNCHANGED <<apiKeys, usage, issued, now, today, users>>

\* ------------------------------------------------------ usage counter
\* A SELECT that forgets the date: the key's record of any day.
select_usage_any_day(rows, api_key_id, usage_date) ==
    scalar_one_or_none({u \in rows : u.api_key_id = api_key_id})

\* The SELECT of record_usage and of increment_usage: the usage row of the
\* key for today.
select_usage(rows, api_key_id, usage_date) ==
    scalar_one_or_none({u \in rows : u.api_key_id = api_key_id
                                      /\ u.usage_date = usage_date})

\* An increment that stores the count it was given instead of adding it.
increment_usage_overwrite(usage_record, new_id, api_key_id, usage_date, count) ==
    IF usage_record = NoRow
    THEN [op |-> "insert",
          row |-> [id |-> new_id, api_key_id |-> api_key_id,
                   usage_date |-> usage_date, image_count |-> count]]
    ELSE [op |-> "update",
          row |-> [usage_record EXCEPT !.image_count = count]]

\* increment_usage after its SELECT: the statement its flush emits.  A new
\* row is INSERTed with the count; a loaded row is UPDATEd to the count the
\* session computed from the value it loaded.
increment_usage(usage_record, new_id, api_key_id, usage_date, count) ==
    IF usage_record = NoRow
    THEN [op |-> "insert",
          row |-> [id |-> new_id, api_key_id |-> api_key_id,
                   usage_date |-> usage_date, image_count |-> count]]
    ELSE [op |-> "update",
          row |-> [usage_record EXCEPT !.image_count = @ + count]]

\* A record_usage that leaves a new record at the column default 0.
record_usage_default_count(usage_record, new_id, api_key_id, usage_date) ==
    IF usage_record # NoRow
    THEN [op |-> "update",
          row |-> [usage_record EXCEPT !.image_count = @ + 1]]
    ELSE [op |-> "insert",
          row |-> [id |-> new_id, api_key_id |-> api_key_id,
                   usage_date |-> usage_date, image_count |-> 0]]

\* record_usage after its SELECT.
record_usage(usage_record, new_id, api_key_id, usage_date) ==
    IF usage_record # NoRow
    THEN [op |-> "update",
          row |-> [usage_record EXCEPT !.image_count = @ + 1]]
    ELSE [op |-> "insert",
          row |-> [id |-> new_id, api_key_id |-> api_key_id,
                   usage_date |-> usage_date, image_count |-> 1]]

\* await db.flush() of a usage statement w in session r, and the handler's
\* return with response resp.  An INSERT that collides with a committed row
\* raises IntegrityError, which no caller catches; one that collides with a
\* row of an open transaction waits for that transaction to end.
FlushUsage(r, q, w, resp) ==
    IF w.op = "insert"
    THEN IF uq_usage_api_key_date(usage \cup tx[r].newUsage,
                                  w.row.api_key_id, w.row.usage_date) # {}
         THEN Raise(r, q, Resp(500, "Internal Server Error"))
         ELSE /\ uq_usage_api_key_date(PendingUsage(r),
                                       w.row.api_key_id, w.row.usage_date) = {}
              /\ tx' = [tx EXCEPT ![r].newUsage = @ \cup {w.row}]
              /\ req' = [req EXCEPT ![r] = [q EXCEPT !.pc = "commit", !.resp = resp,
                                                     !.usage_record = w.row]]
    ELSE /\ ~UsageLocked(r, w.row.id)
         /\ tx' = [tx EXCEPT ![r].usageUpd =
                     {u \in @ : u.id # w.row.id}
                     \cup {[id |-> w.row.id, col |-> "image_count",
                            val |-> w.row.image_count]}]
         /\ req' = [req EXCEPT ![r] = [q EXCEPT !.pc = "commit", !.resp = resp,
                                                !.usage_record = w.row]]

\* The SELECT of a usage call of request r for key api_key_id.
SelectUsage(r, q, api_key_id, next) ==
    LET usage_record == select_usage(UsageView(r), api_key_id, today)
    IN  IF usage_record = MultipleRows
        THEN Raise(r, [q EXCEPT !.usage_call = TRUE], Resp(500, "Internal Server Error"))
        ELSE /\ req' = [req EXCEPT ![r] = [q EXCEPT !.pc = next,
                                                    !.usage_record = usage_record,
                                                    !.usage_call = TRUE,
                                                    !.fresh = (usage_record = NoRow),
                                                    !.read_count =
                                                        IF usage_record = NoRow THEN 0
                                                        ELSE usage_record.image_count]]
             /\ UNCHANGED tx

\* generate: await record_usage(db, api_key.id), then the 201 response
RecordUsage(r) ==
    /\ req[r].pc = "record_usage"
    /\ SelectUsage(r, req[r], req[r].api_key.id, "record_usage_flush")
    /\ UNCHANGED <<apiKeys, usage, issued, now, today, users>>

RecordUsageFlush(r) ==
    /\ req[r].pc = "record_usage_flush"
    /\ FlushUsage(r, req[r], record_usage(req[r].usage_record, r, req[r].api_key.id, today),
                  Resp(201, ""))
    /\ UNCHANGED <<apiKeys, usage, issued, now, today, users>>

\* A caller that records count uses of a key with increment_usage in its
\* own session.
DefaultCount == 1    \* count: int = 1
Deltas == {DefaultCount, 2}

IncrementUsage(r, key_id, count) ==
    /\ CanStart(r)
    /\ SelectUsage(r, Arrived("increment", 0, NoHeader, key_id, count), key_id,
                   "increment_usage_flush")
    /\ UNCHANGED <<apiKeys, usage, issued, now, today, users>>

IncrementUsageFlush(r) ==
    /\ req[r].pc = "increment_usage_flush"
    /\ FlushUsage(r, req[r], increment_usage(req[r].usage_record, r, req[r].key_id, today,
                                     req[r].count),
                  Resp(200, ""))
    /\ UNCHANGED <<apiKeys, usage, issued, now, today, users>>

\* ------------------------------------------------------ daily limit
\* func.coalesce(func.sum(Usage.image_count), 0)
RECURSIVE SumImageCount(_)
SumImageCount(rows) ==
    IF rows = {} THEN 0
    ELSE LET u == CHOOSE u \in rows : TRUE
         IN  u.image_count + SumImageCount(rows \ {u})

\* A limit test that still admits a key whose count has reached the limit.
within_limit_inclusive(current_usage, daily_limit) == current_usage <= daily_limit

\* is_within_limit = current_usage < daily_limit
within_limit(current_usage, daily_limit) == current_usage < daily_limit

\* A usage query that forgets the date: all the key's records are counted.
todays_usage_any_day(rows, api_key_id, usage_date) ==
    LET found == {u \in rows : u.api_key_id = api_key_id}
    IN  IF found = {} THEN NoRow
        ELSE [id |-> 0, image_count |-> SumImageCount(found)]

\* select(Usage.image_count).where(api_key_id == ..., usage_date == today),
\* result.scalar_one_or_none()
todays_usage(rows, api_key_id, usage_date) ==
    scalar_one_or_none({u \in rows : u.api_key_id = api_key_id
                                      /\ u.usage_date = usage_date})

\* check_daily_limit after its SELECT returned usage_record
check_daily_limit(usage_record, daily_limit) ==
    LET current_usage == IF usage_record # NoRow THEN usage_record.image_count ELSE 0
    IN  [is_within_limit |-> within_limit(current_usage, daily_limit),
         current_usage |-> current_usage]

\* A check that creates today's record when the key has none.
CheckDailyLimitCreatesRecord(r, key_id, daily_limit) ==
    /\ CanStart(r)
    /\ LET usage_record == todays_usage(UsageView(r), key_id, today)
           q == [Arrived("check_limit", 0, NoHeader, key_id, 0) EXCEPT
                    !.daily_limit = daily_limit, !.pc = "commit",
                    !.resp = Resp(200, ""),
                    !.body = check_daily_limit(usage_record, daily_limit),
                    !.within_limit =
                        check_daily_limit(usage_record, daily_limit).is_within_limit]
       IN  /\ req' = [req EXCEPT ![r] = q]
           /\ tx' = IF usage_record = NoRow
                    THEN [tx EXCEPT ![r].newUsage =
                            @ \cup {[id |-> r, api_key_id |-> key_id,
                                     usage_date |-> today, image_count |-> 0]}]
                    ELSE tx
    /\ UNCHANGED <<apiKeys, usage, issued, now, today, users>>

\* A caller that asks check_daily_limit about a key in its own session.
CheckDailyLimit(r, key_id, daily_limit) ==
    /\ CanStart(r)
    /\ LET usage_record == todays_usage(UsageView(r), key_id, today)
           q == [Arrived("check_limit", 0, NoHeader, key_id, 0) EXCEPT
                    !.daily_limit = daily_limit]
       IN  IF usage_record = MultipleRows
           THEN Raise(r, q, Resp(500, "Internal Server Error"))
           ELSE /\ req' = [req EXCEPT ![r] =
                             [q EXCEPT !.pc = "commit", !.resp = Resp(200, ""),
                                       !.body = check_daily_limit(usage_record,
                                                                  daily_limit),
                                       !.within_limit =
                                           check_daily_limit(usage_record, daily_limit)
                                               .is_within_limit]]
                /\ UNCHANGED tx
    /\ UNCHANGED <<apiKeys, usage, issued, now, today, users>>

\* ------------------------------------------------ limit enforcement
\* The handler the specification describes for an enforced limit: after the
\* authenticator returned the key it calls check_daily_limit(db, api_key, L)
\* in its session, ends without generating when the key is not within the
\* limit, and otherwise goes on as generate does.  Every handler passes the
\* same limit L.
LimitExceeded == Resp(429, "Daily limit exceeded")

GateCheck(r, daily_limit) ==
    /\ req[r].pc = "generate_image"
    /\ req[r].daily_limit = 0
    /\ \A q \in Requests : req[q].daily_limit \in {0, daily_limit}
    /\ LET usage_record == todays_usage(UsageView(r), req[r].api_key.id, today)
           q == [req[r] EXCEPT !.daily_limit = daily_limit]
       IN  IF usage_record = MultipleRows
           THEN Raise(r, q, Resp(500, "Internal Server Error"))
           ELSE IF ~check_daily_limit(usage_record, daily_limit).is_within_limit
           THEN Raise(r, q, LimitExceeded)
           ELSE /\ req' = [req EXCEPT ![r] = [q EXCEPT !.within_limit = TRUE]]
                /\ UNCHANGED tx
    /\ UNCHANGED <<apiKeys, usage, issued, now, today, users>>

\* generate_image is awaited only after the check returned within limit.
GatedGenerateImage(r, p) == req[r].within_limit /\ GenerateImage(r, p)

\* ------------------------------------------ GET /v1/usage/key/{key_id}
\* A usage lookup that does not verify the owner.
get_key_usage_select_any_owner(rows, key_id, user_id) ==
    scalar_one_or_none({k \in rows : k.id = key_id})

\* get_key_usage, its first SELECT: the key of that id and owner
get_key_usage_select(rows, key_id, user_id) ==
    scalar_one_or_none({k \in rows : k.id = key_id /\ k.user_id = user_id})

\* get_key_usage up to its return of None; get_key_stats raises 404 then.
GetKeyUsage(r, user, key_id) ==
    /\ CanStart(r)
    /\ LET api_key == get_key_usage_select(KeyView(r), key_id, user)
           q == Arrived("key_usage", user, NoHeader, key_id, 0)
       IN  IF api_key = NoRow
           THEN Raise(r, q, Resp(404, "API key not found"))
           ELSE /\ req' = [req EXCEPT ![r] =
                             [q EXCEPT !.pc = "key_usage_total", !.api_key = api_key]]
                /\ UNCHANGED tx
    /\ UNCHANGED <<apiKeys, usage, issued, now, today, users>>

\* get_key_usage, its second SELECT: the total of the key's counts
GetKeyUsageTotal(r) ==
    /\ req[r].pc = "key_usage_total"
    /\ req' = [req EXCEPT ![r].pc = "key_usage_daily",
                          ![r].body.key_id = req[r].api_key.id,
                          ![r].body.key_name = req[r].api_key.name,
                          ![r].body.key_prefix = req[r].api_key.prefix,
                          ![r].body.total_images =
                              SumImageCount({u \in UsageView(r) :
                                               u.api_key_id = req[r].key_id})]
    /\ UNCHANGED <<apiKeys, usage, tx, issued, now, today, users>>

\* get_key_usage, its third SELECT: the daily breakdown; then the response
GetKeyUsageDaily(r) ==
    /\ req[r].pc = "key_usage_daily"
    /\ req' = [req EXCEPT ![r].pc = "commit",
                          ![r].resp = Resp(200, ""),
                          ![r].body.daily_usage =
                              {[usage_date |-> u.usage_date,
                                image_count |-> u.image_count] :
                                 u \in {u \in UsageView(r) :
                                          u.api_key_id = req[r].key_id}}]
    /\ UNCHANGED <<apiKeys, usage, tx, issued, now, today, users>>


\* ------------------------------------------------ GET /v1/usage/summary
\* A join that forgets the owner: the usage of every key.
usage_of_any_user(keys, rows, user_id) ==
    {u \in rows : \E k \in keys : k.id = u.api_key_id}

\* .join(ApiKey, Usage.api_key_id == ApiKey.id).where(ApiKey.user_id == user_id)
usage_of_user(keys, rows, user_id) ==
    {u \in rows : \E k \in keys : k.id = u.api_key_id /\ k.user_id = user_id}

\* get_usage_summary, its first SELECT: the sum over the joined rows
summary_total_images(keys, rows, user_id) ==
    SumImageCount(usage_of_user(keys, rows, user_id))

\* Key counts that count every key of the user as active.
summary_key_counts_all_active(keys, user_id) ==
    [total_keys |-> Cardinality({k \in keys : k.user_id = user_id}),
     active_keys |-> Cardinality({k \in keys : k.user_id = user_id})]

\* get_usage_summary, its second SELECT: count(ApiKey.id) and
\* sum(cast(is_active, Integer)), None becoming 0
summary_key_counts(keys, user_id) ==
    [total_keys |-> Cardinality({k \in keys : k.user_id = user_id}),
     active_keys |-> Cardinality({k \in keys : k.user_id = user_id /\ k.is_active})]

\* An inner join: the keys without usage are missing.
key_totals_inner_join(keys, rows, user_id) ==
    {[key_id |-> k.id, key_name |-> k.name, key_prefix |-> k.prefix,
      image_count |-> SumImageCount({u \in rows : u.api_key_id = k.id})] :
        k \in {k \in keys : k.user_id = user_id
                              /\ \E u \in rows : u.api_key_id = k.id}}

\* .outerjoin(Usage, ...).where(ApiKey.user_id == user_id).group_by(ApiKey.id, ...):
\* one row per key of the user, with coalesce(sum(image_count), 0)
key_totals(keys, rows, user_id) ==
    {[key_id |-> k.id, key_name |-> k.name, key_prefix |-> k.prefix,
      image_count |-> SumImageCount({u \in rows : u.api_key_id = k.id})] :
        k \in {k \in keys : k.user_id = user_id}}

TopLimit == 5    \* .limit(5)

\* .order_by(... .desc()).limit(n): the lists the query can return; rows of
\* equal count come in any order.
RECURSIVE order_by_count_desc(_, _)
order_by_count_desc(rows, n) ==
    IF n = 0 \/ rows = {} THEN {<<>>}
    ELSE UNION {{<<x>> \o rest : rest \in order_by_count_desc(rows \ {x}, n - 1)} :
                  x \in {x \in rows : \A y \in rows : y.image_count <= x.image_count}}

\* get_usage_summary, its third SELECT
summary_top_keys(keys, rows, user_id) ==
    order_by_count_desc(key_totals(keys, rows, user_id), TopLimit)

\* get_summary: the first SELECT of get_usage_summary
GetSummary(r, user) ==
    /\ CanStart(r)
    /\ req' = [req EXCEPT ![r] =
                 [Arrived("summary", user, NoHeader, 0, 0) EXCEPT
                    !.pc = "summary_key_counts",
                    !.body = [total_images |->
                                  summary_total_images(KeyView(r), UsageView(r), user),
                              total_keys |-> 0, active_keys |-> 0,
                              top_keys |-> <<>>]]]
    /\ UNCHANGED <<apiKeys, usage, tx, issued, now, today, users>>

\* the second SELECT
SummaryKeyCounts(r) ==
    /\ req[r].pc = "summary_key_counts"
    /\ LET key_counts == summary_key_counts(KeyView(r), req[r].user)
       IN  req' = [req EXCEPT ![r].pc = "summary_top_keys",
                              ![r].body.total_keys = key_counts.total_keys,
                              ![r].body.active_keys = key_counts.active_keys]
    /\ UNCHANGED <<apiKeys, usage, tx, issued, now, today, users>>

\* the third SELECT and the response
SummaryTopKeys(r) ==
    /\ req[r].pc = "summary_top_keys"
    /\ \E top_keys \in summary_top_keys(KeyView(r), UsageView(r), req[r].user) :
         req' = [req EXCEPT ![r].pc = "commit",
                            ![r].resp = Resp(200, ""),
                            ![r].body.top_keys = top_keys]
    /\ UNCHANGED <<apiKeys, usage, tx, issued, now, today, users>>

\* -------------------------------------------------- GET /v1/usage/daily
MinDays == 1       \* Query(ge=1)
MaxDays == 365     \* Query(le=365)

\* A window that is one day too long.
start_date_one_day_early(end_date, days) == end_date - days

\* end_date - timedelta(days=days - 1)
start_date(end_date, days) == end_date - (days - 1)

\* the rows of the user's keys with start_date <= usage_date <= end_date
daily_rows(keys, rows, user_id, start, end) ==
    {u \in usage_of_user(keys, rows, user_id) :
        u.usage_date >= start /\ u.usage_date <= end}

\* .group_by(Usage.usage_date) with sum(image_count)
group_by_date(rows) ==
    {[usage_date |-> d,
      image_count |-> SumImageCount({u \in rows : u.usage_date = d})] :
        d \in {u.usage_date : u \in rows}}

\* .order_by(Usage.usage_date.desc())
RECURSIVE order_by_date_desc(_)
order_by_date_desc(entries) ==
    IF entries = {} THEN <<>>
    ELSE LET x == CHOOSE x \in entries :
                     \A y \in entries : y.usage_date <= x.usage_date
         IN  <<x>> \o order_by_date_desc(entries \ {x})

get_daily_usage(keys, rows, user_id, days, end_date) ==
    order_by_date_desc(
        group_by_date(daily_rows(keys, rows, user_id,
                                 start_date(end_date, days), end_date)))

\* get_daily: a days outside ge=1, le=365 is refused before the handler runs
GetDaily(r, user, days) ==
    /\ CanStart(r)
    /\ LET q == [Arrived("daily", user, NoHeader, 0, 0) EXCEPT !.days = days]
       IN  IF days < MinDays \/ days > MaxDays
           THEN Raise(r, q, Resp(422, "Unprocessable Entity"))
           ELSE /\ req' = [req EXCEPT ![r] =
                             [q EXCEPT !.pc = "commit", !.resp = Resp(200, ""),
                                          !.body = [days |->
                                              get_daily_usage(KeyView(r), UsageView(r),
                                                              user, days, today)]]]
                /\ UNCHANGED tx
    /\ UNCHANGED <<apiKeys, usage, issued, now, today, users>>

\* ------------------------------------------------------ specification
\* The API as its clients drive it; their create requests carry no name.
Next ==
    \E r \in Requests :
        \/ \E user \in Users : CreateApiKey(r, user, "")
        \/ \E user \in Users, key_id \in KnownKeyIds \cup {NoSuchId} :
               RevokeKey(r, user, key_id)
        \/ RevokeFlush(r)
        \/ \E header \in Headers : Authenticate(r, header)
        \/ UpdateLastUsed(r)
        \/ \E p \in ProviderResults : GenerateImage(r, p)
        \/ RecordUsage(r)
        \/ RecordUsageFlush(r)
        \/ \E key_id \in KnownKeyIds, count \in Deltas : IncrementUsage(r, key_id, count)
        \/ IncrementUsageFlush(r)
        \/ Commit(r)

Spec == Init /\ [][Next]_vars

\* The same system with a store that can fail the flush of update_last_used.
NextFaulty == Next \/ \E r \in Requests : UpdateLastUsedFails(r)

SpecFaulty == Init /\ [][NextFaulty]_vars

\* ------------------------------------------------ owner's endpoints
\* The endpoints of the signed-in owner: create, list and revoke keys, read
\* a key's usage; next to them, callers that count uses of a key.
NextOwner ==
    \E r \in Requests :
        \/ \E user \in Users, name \in Names : CreateApiKey(r, user, name)
        \/ \E user \in Users, key_id \in KnownKeyIds \cup {NoSuchId} :
               RevokeKey(r, user, key_id)
        \/ RevokeFlush(r)
        \/ \E user \in Users : ListKeys(r, user)
        \/ \E user \in Users, key_id \in KnownKeyIds \cup {NoSuchId} :
               GetKeyUsage(r, user, key_id)
        \/ GetKeyUsageTotal(r)
        \/ GetKeyUsageDaily(r)
        \/ \E key_id \in KnownKeyIds, count \in Deltas : IncrementUsage(r, key_id, count)
        \/ IncrementUsageFlush(r)
        \/ Commit(r)

SpecOwner == Init /\ [][NextOwner]_vars

\* ------------------------------------------------------ registration
\* The service starts with any number of the users registered.
InitAuth ==
    /\ apiKeys = {} /\ usage = {} /\ issued = {}
    /\ tx = [r \in Requests |-> NoTx]
    /\ req = [r \in Requests |-> IdleReq]
    /\ now = 1
    /\ today = 1
    /\ \E n \in 0..MaxUsers : users = {UserRow(i) : i \in 1..n}

NextAuth ==
    \E r \in Requests :
        \/ \E email \in Emails : Register(r, email)
        \/ RegisterLookup(r)
        \/ CreateUser(r)
        \/ Commit(r)

SpecAuth == InitAuth /\ [][NextAuth]_vars

\* ------------------------------------------------------ image provider
\* The generate requests of the holder of the seed key, with every case of
\* the provider.
NextProvider ==
    \E r \in Requests :
        \/ Authenticate(r, Header(<<"Bearer", SeedToken>>))
        \/ UpdateLastUsed(r)
        \/ \E p \in ProviderCases : GenerateImage(r, p)
        \/ RecordUsage(r)
        \/ RecordUsageFlush(r)
        \/ Commit(r)

SpecProvider == Init /\ [][NextProvider]_vars

\* ------------------------------------------------------ key secrets
\* The requests that create a key and the read paths that show keys.
NextSecrets ==
    \E r \in Requests :
        \/ \E user \in Users, name \in Names : CreateApiKey(r, user, name)
        \/ \E user \in Users : ListKeys(r, user)
        \/ \E user \in Users : GetSummary(r, user)
        \/ SummaryKeyCounts(r)
        \/ SummaryTopKeys(r)
        \/ \E user \in Users, key_id \in KnownKeyIds : GetKeyUsage(r, user, key_id)
        \/ GetKeyUsageTotal(r)
        \/ GetKeyUsageDaily(r)
        \/ Commit(r)

SpecSecrets == Init /\ [][NextSecrets]_vars

\* ------------------------------------------------------ usage ledger
\* The rate-limit functions on a ledger that earlier days and other keys
\* have written to: the key of user 1 and a key of user 2, and for each of
\* (key 1, today), (key 1, yesterday), (key 2, today) no record or a record
\* with any count up to MaxCount.
OtherKeyId == MaxReq + 3
OtherToken == NbLive \o token_hex(2)
OtherKey == [id |-> OtherKeyId, user_id |-> 2, key_hash |-> Sha256(OtherToken),
             name |-> "My Key",
             prefix |-> SubSeq(OtherToken, 1, PrefixLen), is_active |-> TRUE,
             last_used_at |-> Null, updated_at |-> 0]
OtherIssued == [id |-> OtherKeyId, user_id |-> 2, key |-> OtherToken]

LedgerSlots ==
    {[id |-> SeedUsageId, api_key_id |-> SeedKeyId, usage_date |-> 1],
     [id |-> SeedUsageId + 1, api_key_id |-> SeedKeyId, usage_date |-> 0],
     [id |-> SeedUsageId + 2, api_key_id |-> OtherKeyId, usage_date |-> 1]}

LedgerRow(slot, image_count) ==
    [id |-> slot.id, api_key_id |-> slot.api_key_id,
     usage_date |-> slot.usage_date, image_count |-> image_count]

InitLedger ==
    /\ apiKeys = {SeedKey, OtherKey}
    /\ issued = {SeedIssued, OtherIssued}
    /\ \E f \in [LedgerSlots -> -1..MaxCount] :
          usage = {LedgerRow(slot, f[slot]) : slot \in {x \in LedgerSlots : f[x] >= 0}}
    /\ tx = [r \in Requests |-> NoTx]
    /\ req = [r \in Requests |-> IdleReq]
    /\ now = 1
    /\ today = 1
    /\ users = {UserRow(i) : i \in Users}

Limits == 0..MaxLimit

NextLedger ==
    \E r \in Requests :
        \/ \E daily_limit \in Limits : CheckDailyLimit(r, SeedKeyId, daily_limit)
        \/ \E count \in Deltas : IncrementUsage(r, SeedKeyId, count)
        \/ IncrementUsageFlush(r)
        \/ Commit(r)

SpecLedger == InitLedger /\ [][NextLedger]_vars

\* ------------------------------------------------------ fresh key
\* A key that was just issued and never used: generate requests of its
\* holder, and callers that ask check_daily_limit about it with a limit of
\* at least 1.
InitFresh ==
    /\ apiKeys = {SeedKey}
    /\ issued = {SeedIssued}
    /\ usage = {}
    /\ tx = [r \in Requests |-> NoTx]
    /\ req = [r \in Requests |-> IdleReq]
    /\ now = 1
    /\ today = 1
    /\ users = {UserRow(i) : i \in Users}

NextFresh ==
    \E r \in Requests :
        \/ Authenticate(r, Header(<<"Bearer", SeedToken>>))
        \/ UpdateLastUsed(r)
        \/ \E p \in ProviderResults : GenerateImage(r, p)
        \/ RecordUsage(r)
        \/ RecordUsageFlush(r)
        \/ \E daily_limit \in Limits \ {0} : CheckDailyLimit(r, SeedKeyId, daily_limit)
        \/ Commit(r)

SpecFresh == InitFresh /\ [][NextFresh]_vars

\* ------------------------------------------------------ enforced limit
\* Generate requests of the holder of one active key, every one of them
\* gated; the key is unused today or has one use recorded, and the limit is
\* at least 1.
InitGated ==
    /\ apiKeys = {SeedKey}
    /\ issued = {SeedIssued}
    /\ usage \in {{}, {SeedUsage}}
    /\ tx = [r \in Requests |-> NoTx]
    /\ req = [r \in Requests |-> IdleReq]
    /\ now = 1
    /\ today = 1
    /\ users = {UserRow(i) : i \in Users}

NextGated ==
    \E r \in Requests :
        \/ Authenticate(r, Header(<<"Bearer", SeedToken>>))
        \/ UpdateLastUsed(r)
        \/ \E daily_limit \in Limits \ {0} : GateCheck(r, daily_limit)
        \/ \E p \in ProviderResults : GatedGenerateImage(r, p)
        \/ RecordUsage(r)
        \/ RecordUsageFlush(r)
        \/ Commit(r)

SpecGated == InitGated /\ [][NextGated]_vars

\* ------------------------------------------------------ used keys
\* Both usage functions on a ledger that earlier days and both keys have
\* written to: generate requests of the two key holders, whose handler
\* calls record_usage, and callers of increment_usage.  Each key has a
\* record for yesterday; the key of user 2 has one for today, the key of
\* user 1 has none or one with any count up to MaxCount.
CounterRows ==
    {[id |-> SeedUsageId + 1, api_key_id |-> SeedKeyId, usage_date |-> 0,
      image_count |-> 1],
     [id |-> SeedUsageId + 2, api_key_id |-> OtherKeyId, usage_date |-> 1,
      image_count |-> 2],
     [id |-> SeedUsageId + 3, api_key_id |-> OtherKeyId, usage_date |-> 0,
      image_count |-> 1]}

InitCounter ==
    /\ apiKeys = {SeedKey, OtherKey}
    /\ issued = {SeedIssued, OtherIssued}
    /\ \E c \in 0..MaxCount :
          usage = CounterRows
                    \cup (IF c = 0 THEN {}
                          ELSE {[SeedUsage EXCEPT !.image_count = c]})
    /\ tx = [r \in Requests |-> NoTx]
    /\ req = [r \in Requests |-> IdleReq]
    /\ now = 1
    /\ today = 1
    /\ users = {UserRow(i) : i \in Users}

\* The provider returns an image, or fails.
CounterProviderCases ==
    {p \in ProviderResults : provider_outcome(p) \in {"image", "server_error"}}

NextCounter ==
    \E r \in Requests :
        \/ \E t \in {SeedToken, OtherToken} :
               Authenticate(r, Header(<<"Bearer", t>>))
        \/ UpdateLastUsed(r)
        \/ \E p \in CounterProviderCases : GenerateImage(r, p)
        \/ RecordUsage(r)
        \/ RecordUsageFlush(r)
        \/ \E key_id \in {SeedKeyId, OtherKeyId} :
               IncrementUsage(r, key_id, DefaultCount)
        \/ IncrementUsageFlush(r)
        \/ Commit(r)

SpecCounter == InitCounter /\ [][NextCounter]_vars

\* The same callers with every kind of count increment_usage accepts: its
\* parameter is an int without a check, so a negative one and zero next to
\* the positive ones.
Counts == {-1, 0} \cup Deltas

NextCounts ==
    \E r \in Requests :
        \/ Authenticate(r, Header(<<"Bearer", SeedToken>>))
        \/ UpdateLastUsed(r)
        \/ \E p \in CounterProviderCases : GenerateImage(r, p)
        \/ RecordUsage(r)
        \/ RecordUsageFlush(r)
        \/ \E count \in Counts : IncrementUsage(r, SeedKeyId, count)
        \/ IncrementUsageFlush(r)
        \/ Commit(r)

SpecCounts == InitCounter /\ [][NextCounts]_vars

\* ------------------------------------------------ keys and summary
\* The owners issue and revoke keys and read their summaries.
NextSummary ==
    \E r \in Requests :
        \/ \E user \in Users : CreateApiKey(r, user, "")
        \/ \E user \in Users, key_id \in KnownKeyIds \cup {NoSuchId} :
               RevokeKey(r, user, key_id)
        \/ RevokeFlush(r)
        \/ \E user \in Users : GetSummary(r, user)
        \/ SummaryKeyCounts(r)
        \/ SummaryTopKeys(r)
        \/ Commit(r)

SpecSummary == Init /\ [][NextSummary]_vars

\* ------------------------------------------------------ usage reports
\* The usage reports on a store that earlier requests have filled: user 1
\* holds n keys, n up to MaxKeys, every third of them revoked; user 2 holds
\* one key.  Key i of user 1 has for today the count i modulo MaxCount + 1
\* (no record when that is 0); key 4 was also used yesterday, key 1 on the
\* oldest day the widest window reaches and key 2 on the day before that.
OwnKeyId(i) == OtherKeyId + i
OwnToken(i) == NbLive \o token_hex(MaxSecrets + i)
OwnKey(i) ==
    LET g == generate_api_key(token_hex(MaxSecrets + i))
    IN  [id |-> OwnKeyId(i), user_id |-> 1, key_hash |-> g.key_hash,
         name |-> key_name(IF i % 2 = 0 THEN "" ELSE "My Key"),
         prefix |-> g.prefix, is_active |-> (i % 3 # 0), last_used_at |-> Null,
         updated_at |-> 0]
OwnIssued(i) == [id |-> OwnKeyId(i), user_id |-> 1, key |-> OwnToken(i)]

UsageRowId(i, j) == OtherKeyId + 4 * i + j
OwnUsage(i) ==
    LET Row(j, usage_date, image_count) ==
            [id |-> UsageRowId(i, j), api_key_id |-> OwnKeyId(i),
             usage_date |-> usage_date, image_count |-> image_count]
    IN  (IF i % (MaxCount + 1) > 0 THEN {Row(0, 1, i % (MaxCount + 1))} ELSE {})
        \cup (IF i = 4 THEN {Row(1, 0, 1)} ELSE {})
        \cup (IF i = 1 THEN {Row(2, 1 - (MaxDays - 1), 1)} ELSE {})
        \cup (IF i = 2 THEN {Row(3, 1 - MaxDays, 2)} ELSE {})

OtherUsage ==
    {[id |-> SeedUsageId, api_key_id |-> OtherKeyId, usage_date |-> 1,
      image_count |-> 2],
     [id |-> SeedUsageId + 1, api_key_id |-> OtherKeyId, usage_date |-> 0,
      image_count |-> 1]}

InitUsage ==
    /\ \E n \in 0..MaxKeys :
          /\ apiKeys = {OwnKey(i) : i \in 1..n} \cup {OtherKey}
          /\ issued = {OwnIssued(i) : i \in 1..n} \cup {OtherIssued}
          /\ usage = UNION {OwnUsage(i) : i \in 1..n} \cup OtherUsage
    /\ tx = [r \in Requests |-> NoTx]
    /\ req = [r \in Requests |-> IdleReq]
    /\ now = 1
    /\ today = 1
    /\ users = {UserRow(i) : i \in Users}

\* The keys the per-key report is asked for, and the keys that are used
\* while the reports are read.
ReportedKeyIds == {OwnKeyId(1), OtherKeyId} \cap KnownKeyIds

DefaultDays == 30    \* days: int = Query(default=30, ...)

\* The three reports, the daily one with its default window.
NextUsage ==
    \E r \in Requests :
        \/ \E user \in Users : GetSummary(r, user)
        \/ SummaryKeyCounts(r)
        \/ SummaryTopKeys(r)
        \/ \E user \in Users : GetDaily(r, user, DefaultDays)
        \/ \E user \in Users, key_id \in ReportedKeyIds : GetKeyUsage(r, user, key_id)
        \/ GetKeyUsageTotal(r)
        \/ GetKeyUsageDaily(r)
        \/ \E key_id \in ReportedKeyIds : IncrementUsage(r, key_id, DefaultCount)
        \/ IncrementUsageFlush(r)
        \/ Commit(r)

SpecUsage == InitUsage /\ [][NextUsage]_vars

\* The window lengths a client asks for: both ends of the accepted range,
\* the neighbour of the lower end, and the first value outside at each end.
DaysValues == {MinDays - 1, MinDays, MinDays + 1, MaxDays, MaxDays + 1}

\* The daily report with every window, while keys are being used.
NextDaily ==
    \E r \in Requests :
        \/ \E user \in Users, days \in DaysValues : GetDaily(r, user, days)
        \/ \E key_id \in ReportedKeyIds : IncrementUsage(r, key_id, DefaultCount)
        \/ IncrementUsageFlush(r)
        \/ Commit(r)

SpecDaily == InitUsage /\ [][NextDaily]_vars

\* ------------------------------------------------------------- claims
\* The key a usage call of request r counts for, and its delta.
UsageKey(r) == IF req[r].kind = "increment" THEN req[r].key_id ELSE req[r].api_key.id
Delta(r) == IF req[r].kind = "increment" THEN req[r].count ELSE 1
UsageCalls(k) == {r \in Requests : req[r].usage_call /\ UsageKey(r) = k}
RECURSIVE DeltaSum(_)
DeltaSum(S) ==
    IF S = {} THEN 0
    ELSE LET x == CHOOSE x \in S : TRUE IN Delta(x) + DeltaSum(S \ {x})
Returned(r) == req[r].pc = "done" /\ req[r].resp.status \in {200, 201}

\* The committed usage rows of key k for today.
RowsToday(k) == {u \in usage : u.api_key_id = k /\ u.usage_date = today}

KeyIds == {k.id : k \in apiKeys}

\* C1: when N concurrent increments of delta 1 run against a (key, today)
\* pair that has no usage record yet (each of them found none), all of them
\* complete and the pair ends with exactly one record whose count is N.
C1_FreshPairConcurrentIncrements ==
    \A k \in KeyIds :
        LET calls == UsageCalls(k)
        IN  (/\ calls # {}
             /\ \A r \in calls : req[r].pc = "done" /\ req[r].fresh /\ Delta(r) = 1)
            => /\ \A r \in calls : Returned(r)
               /\ \E u \in RowsToday(k) :
                    RowsToday(k) = {u} /\ u.image_count = Cardinality(calls)

\* C2: no update is lost: when the record of a pair existed before its
\* increments (each of them found it) and all of them have committed, the
\* record's count is its initial count plus the sum of their deltas.
C2_NoLostUpdate ==
    \A k \in KeyIds :
        LET calls == UsageCalls(k)
        IN  (/\ calls # {}
             /\ \A r \in calls : req[r].pc = "done" /\ ~req[r].fresh)
            => \E u \in RowsToday(k) :
                 /\ u.id = SeedUsageId
                 /\ u.image_count = SeedUsage.image_count + DeltaSum(calls)

\* C3: the committed usage table holds at most one record per
\* (api_key_id, usage_date) pair.
C3_OneRecordPerKeyAndDay ==
    \A u1, u2 \in usage :
        (u1.api_key_id = u2.api_key_id /\ u1.usage_date = u2.usage_date) => u1 = u2

\* C3 witness: two increments raced to create the record of a pair; one
\* created it and the other was refused by the unique constraint.
C3_Witness ==
    \E r1, r2 \in Requests :
        /\ r1 # r2
        /\ req[r1].usage_call /\ req[r2].usage_call
        /\ UsageKey(r1) = UsageKey(r2)
        /\ req[r1].fresh /\ req[r2].fresh
        /\ Returned(r1)
        /\ req[r2].pc = "done" /\ req[r2].resp.status = 500
        /\ Cardinality(RowsToday(UsageKey(r1))) = 1

\* --------------------------------------------------- authentication
\* The credential a generate request presented as "Bearer <credential>".
Presented(r) ==
    IF /\ req[r].kind = "generate"
       /\ req[r].header.present
       /\ Len(req[r].header.parts) = 2
       /\ req[r].header.parts[1] = "Bearer"
    THEN req[r].header.parts[2]
    ELSE <<>>

\* The create responses that handed out the plaintext t.
IssuedBy(t) == {c \in issued : c.key = t}

\* get_api_key_from_header returned the key to the handler of r.
Authenticated(r) == req[r].kind = "generate" /\ req[r].touched_at # Null
Rejected(r) == req[r].kind = "generate" /\ req[r].pc = "done"
               /\ req[r].api_key = NoRow

\* C4: an authentication that presents the plaintext of a key whose committed
\* is_active was false when it queried the store fails with 401 and never
\* returns the key record.
C4_RevokedKeyNeverAuthenticates ==
    \A r \in Requests : \A c \in IssuedBy(Presented(r)) :
        [id |-> c.id, is_active |-> FALSE] \in req[r].seen
        => /\ Rejected(r)
           /\ req[r].resp.status = 401
           /\ ~Authenticated(r)

\* C4 witness: a revoked key was presented and refused.
C4_Witness ==
    \E r \in Requests : \E c \in IssuedBy(Presented(r)) :
        /\ [id |-> c.id, is_active |-> FALSE] \in req[r].seen
        /\ Rejected(r)
        /\ req[r].resp.status = 401

\* C5: an authentication that presents the plaintext handed out for a key
\* which is committed and active when the store is queried resolves to that
\* key (same id and owner) and is not refused.
C5_IssuedKeyAuthenticatesAsItself ==
    \A r \in Requests : \A c \in IssuedBy(Presented(r)) :
        [id |-> c.id, is_active |-> TRUE] \in req[r].seen
        => /\ req[r].api_key # NoRow
           /\ req[r].api_key.id = c.id
           /\ req[r].api_key.user_id = c.user_id
           /\ req[r].pc # "update_last_used" => Authenticated(r)

\* C5 witness: two keys exist and an authentication with the plaintext of
\* one of them returned its record.
C5_Witness ==
    \E r \in Requests : \E c \in IssuedBy(Presented(r)) :
        /\ [id |-> c.id, is_active |-> TRUE] \in req[r].seen
        /\ Cardinality(req[r].seen) >= 2
        /\ Authenticated(r)
        /\ req[r].api_key.id = c.id

\* C6: an authentication that starts after revoke_key returned True for the
\* key it presents is refused.
C6_RevokeVisibleOnReturn ==
    \A r \in Requests : \A c \in IssuedBy(Presented(r)) :
        (req[r].looked_up /\ c.id \in req[r].revoked_before)
        => Rejected(r) /\ req[r].resp.status = 401

\* C7: a credential that is not well formed (length, prefix, lowercase
\* hexadecimal suffix) fails at format validation without a store lookup.
C7_MalformedNeverLookedUp ==
    \A r \in Requests :
        (req[r].kind = "generate" /\ Presented(r) # <<>> /\ ~WellFormed(Presented(r)))
        => /\ ~req[r].looked_up
           /\ req[r].resp = Unauthorized("Invalid API key format")

\* C8 as stated: every two authentication failures carry the same response.
C8_FailuresIndistinguishable ==
    \A r1, r2 \in Requests :
        (Rejected(r1) /\ Rejected(r2)) => req[r1].resp = req[r2].resp

\* C8 amended: every authentication failure has status 401; its detail names
\* the stage that failed, "API key has been revoked" for a revoked key and
\* "Invalid API key" for a credential of the right format that no key has.
C8_FailuresShareStatusOnly ==
    \A r \in Requests :
        Rejected(r) =>
            /\ req[r].resp.status = 401
            /\ ~req[r].header.present
               => req[r].resp.detail = "Missing Authorization header"
            /\ (\E c \in IssuedBy(Presented(r)) :
                    [id |-> c.id, is_active |-> FALSE] \in req[r].seen)
               => req[r].resp.detail = "API key has been revoked"
            /\ (/\ Presented(r) # <<>>
                /\ KeyFormatOk(Presented(r))
                /\ \A c \in IssuedBy(Presented(r)) :
                      \A a \in BOOLEAN : [id |-> c.id, is_active |-> a]
                                            \notin req[r].seen)
               => req[r].resp.detail = "Invalid API key"

\* C8 witness: a revoked key and an unknown key were both refused.
C8_Witness ==
    \E r1, r2 \in Requests :
        /\ Rejected(r1) /\ Rejected(r2)
        /\ req[r1].resp.detail = "API key has been revoked"
        /\ req[r2].resp.detail = "Invalid API key"

\* C9: when the flush of update_last_used fails, the authentication still
\* returns the key record.
C9_TouchFailureSwallowed ==
    \A r \in Requests : req[r].touch_failed => Authenticated(r)

\* C10: after a request that authenticated has ended, the committed row of
\* its key carries a last_used_at no older than that authentication.
C10_TouchPersisted ==
    \A r \in Requests :
        (Authenticated(r) /\ req[r].pc = "done")
        => \E k \in apiKeys : /\ k.id = req[r].api_key.id
                              /\ k.last_used_at # Null
                              /\ k.last_used_at >= req[r].touched_at

\* ------------------------------------------------------ ownership
\* Request r names a key that was issued to another owner.
NotOwner(q) == \E c \in issued : c.id = q.key_id /\ c.user_id # q.user

\* C11: revoke_key for a key that exists but belongs to another owner
\* returns False (delete_key answers 404) and the step changes no key row,
\* committed or pending.
C11_RevokeByNonOwnerChangesNothing ==
    [][\A r \in Requests :
         (/\ req[r].kind = "idle"
          /\ req'[r].kind = "delete_key"
          /\ NotOwner(req'[r]))
         => /\ req'[r].pc = "done"
            /\ req'[r].resp.status = 404
            /\ apiKeys' = apiKeys
            /\ tx' = tx]_vars

\* C11 witness: a committed, active key of one owner was named in a revoke
\* of another owner, which was answered 404.
C11_Witness ==
    \E r \in Requests : \E k \in apiKeys :
        /\ req[r].kind = "delete_key"
        /\ req[r].key_id = k.id
        /\ req[r].user # k.user_id
        /\ k.is_active
        /\ req[r].pc = "done"
        /\ req[r].resp.status = 404

\* The owner-scoped requests that name a key id.
OwnerScoped(r) == req[r].kind \in {"delete_key", "key_usage"}

\* C12: on the endpoints that take a key id, the response for a key of
\* another owner is the response for a key id that no key has: the same 404
\* and the same detail.
C12_NotOwnedLooksNotFound ==
    \A r1, r2 \in Requests :
        (/\ OwnerScoped(r1) /\ OwnerScoped(r2)
         /\ NotOwner(req[r1])
         /\ req[r2].key_id = NoSuchId)
        => /\ req[r1].resp = req[r2].resp
           /\ req[r1].body = req[r2].body
           /\ req[r1].resp = Resp(404, "API key not found")

\* C12 witness: a usage lookup of a committed key by another owner and a
\* revoke of an id that no key has were both answered.
C12_Witness ==
    \E r1, r2 \in Requests : \E k \in apiKeys :
        /\ req[r1].kind = "key_usage"
        /\ req[r1].key_id = k.id /\ req[r1].user # k.user_id
        /\ req[r1].pc = "done"
        /\ req[r2].kind = "delete_key"
        /\ req[r2].key_id = NoSuchId
        /\ req[r2].pc = "done"

\* C13: is_active is true at creation and monotonic: a new key row, pending
\* or committed, is active; no step turns a committed inactive key active;
\* the only value a session ever writes to the column is false.
C13_IsActiveMonotonic ==
    [][/\ \A k2 \in apiKeys' :
            /\ (\A k \in apiKeys : k.id # k2.id) => k2.is_active
            /\ \A k \in apiKeys : (k.id = k2.id /\ ~k.is_active) => ~k2.is_active
       /\ \A r \in Requests :
            /\ \A k \in tx'[r].newKeys : k.is_active
            /\ \A u \in tx'[r].keyUpd : u.col = "is_active" => u.val = FALSE]_vars

\* C13 witness: a key was revoked twice by its owner, the second time when
\* it was already inactive; both revokes are committed and it is inactive.
C13_Witness ==
    \E r1, r2 \in Requests : \E k \in apiKeys :
        /\ r1 # r2
        /\ \A r \in {r1, r2} :
              /\ req[r].kind = "delete_key"
              /\ req[r].key_id = k.id
              /\ req[r].pc = "done"
              /\ req[r].resp.status = 204
        /\ ~k.is_active

\* ------------------------------------------------------ daily limit
\* The count of key k's committed record for today, 0 when it has none.
TodaysCount(k) ==
    IF RowsToday(k) = {} THEN 0 ELSE (CHOOSE u \in RowsToday(k) : TRUE).image_count

\* A check_daily_limit call that has returned.
Checked(r) ==
    /\ req[r].kind = "check_limit"
    /\ req[r].resp.status = 200

\* The step is a call of check_daily_limit by request r.
CheckStep(r) == req[r].kind = "idle" /\ req'[r].kind = "check_limit"

\* C14: check_daily_limit reports within limit exactly when the key's count
\* for today, at the call, is below daily_limit: not at the limit, not
\* above it.
C14_WithinLimitIffBelow ==
    [][\A r \in Requests :
         CheckStep(r)
         => /\ Checked(r)'
            /\ req'[r].body.is_within_limit
                 <=> TodaysCount(req'[r].key_id) < req'[r].daily_limit]_vars

\* C14 witness: a key at its limit was reported not within limit and a key
\* one below its limit was reported within limit.
C14_Witness ==
    \E r1, r2 \in Requests :
        /\ Checked(r1) /\ Checked(r2)
        /\ UsageCalls(SeedKeyId) = {}
        /\ TodaysCount(req[r1].key_id) = req[r1].daily_limit
        /\ ~req[r1].body.is_within_limit
        /\ TodaysCount(req[r2].key_id) = req[r2].daily_limit - 1
        /\ req[r2].body.is_within_limit

\* C15: the current_usage check_daily_limit returns is the count of the
\* key's record for today at the call, and 0 when the key has no record for
\* today, whatever the records of other days and other keys.
C15_CurrentUsageIsTodaysCount ==
    [][\A r \in Requests :
         CheckStep(r)
         => /\ Checked(r)'
            /\ req'[r].body.current_usage
                 = IF \E u \in usage : /\ u.api_key_id = req'[r].key_id
                                        /\ u.usage_date = today
                   THEN (CHOOSE u \in usage : /\ u.api_key_id = req'[r].key_id
                                               /\ u.usage_date = today).image_count
                   ELSE 0]_vars

\* C15 witness: the key has no record for today, it has one for yesterday
\* and another key has one for today, both with a positive count; the check
\* returned 0.
C15_Witness ==
    \E r \in Requests :
        /\ Checked(r)
        /\ RowsToday(req[r].key_id) = {}
        /\ \E u \in usage : /\ u.api_key_id = req[r].key_id
                              /\ u.usage_date # today
                              /\ u.image_count > 0
        /\ \E u \in usage : /\ u.api_key_id # req[r].key_id
                              /\ u.usage_date = today
                              /\ u.image_count > 0
        /\ req[r].body.current_usage = 0

\* C16: check_daily_limit is a pure read: neither the call nor the end of
\* its session changes a usage record, a key record or a pending write, and
\* no usage record appears.
C16_CheckIsPureRead ==
    [][\A r \in Requests :
         (req[r].kind = "check_limit" \/ req'[r].kind = "check_limit")
         /\ req'[r] # req[r]
         => /\ usage' = usage
            /\ apiKeys' = apiKeys
            /\ tx' = tx]_vars

\* C16 witness: a key without a record for today was checked twice and
\* still has none.
C16_Witness ==
    \E r1, r2 \in Requests :
        /\ r1 # r2
        /\ Checked(r1) /\ Checked(r2)
        /\ req[r1].pc = "done" /\ req[r2].pc = "done"
        /\ req[r1].key_id = req[r2].key_id
        /\ RowsToday(req[r1].key_id) = {}

\* ------------------------------------------------------ sequential calls
\* No request arrived while another was being handled, and all have ended.
Sequential ==
    \A r \in Requests : ~req[r].overlapped /\ req[r].pc \in {"idle", "done"}

\* The first usage call for key k.
FirstCall(k) == CHOOSE r \in UsageCalls(k) : \A q \in UsageCalls(k) : r <= q

\* C17: after sequential increment_usage calls with counts c1..cn on a key
\* whose count for today was c0 (no record: the first call creates it with
\* c1), every call has returned and the key's one record for today has the
\* count c0 + c1 + ... + cn.
C17_SequentialIncrementsAdd ==
    \A k \in KeyIds :
        LET calls == {r \in UsageCalls(k) : req[r].kind = "increment"}
        IN  (Sequential /\ calls # {} /\ calls = UsageCalls(k))
            => /\ \A r \in calls : Returned(r)
               /\ req[FirstCall(k)].fresh => req[FirstCall(k)].read_count = 0
               /\ \E u \in RowsToday(k) :
                    /\ RowsToday(k) = {u}
                    /\ u.image_count = req[FirstCall(k)].read_count + DeltaSum(calls)

\* C17 witness: two sequential calls with different counts, the first of
\* which created the record; the record holds their sum.
C17_Witness ==
    \E r1, r2 \in Requests : \E u \in usage :
        /\ Sequential
        /\ r1 < r2
        /\ req[r1].kind = "increment" /\ req[r2].kind = "increment"
        /\ req[r1].key_id = req[r2].key_id
        /\ req[r1].fresh /\ ~req[r2].fresh
        /\ req[r1].count # req[r2].count
        /\ RowsToday(req[r1].key_id) = {u}
        /\ u.image_count = req[r1].count + req[r2].count

\* ------------------------------------------------------ metering
\* generate_image raised in the handler of request r.
GenerationFailed(r) ==
    /\ req[r].kind = "generate"
    /\ req[r].outcome \notin {"", "image"}

\* C18: a generate request whose image generation fails does not consume
\* quota: the step in which generate_image raises leaves the usage table
\* as it is and the request's session without a pending write, and the
\* request never makes a usage call.
C18_FailedGenerationNotCounted ==
    [][\A r \in Requests :
         (GenerationFailed(r) \/ GenerationFailed(r)')
         => /\ req'[r].pc = "done"
            /\ req'[r].resp.status \in {400, 429, 502, 503}
            /\ ~req'[r].usage_call
            /\ tx'[r] = NoTx
            /\ req'[r] # req[r] => usage' = usage]_vars

\* C18 witness: the provider was not configured, failed, or returned no
\* image for requests of a key whose count for today stayed what it was.
C18_Witness ==
    \E r1, r2 \in Requests :
        /\ r1 # r2
        /\ GenerationFailed(r1) /\ GenerationFailed(r2)
        /\ req[r1].outcome = "not_configured"
        /\ req[r2].outcome \in {"no_images", "server_error"}
        /\ req[r1].api_key.id = req[r2].api_key.id
        /\ \E u \in usage : RowsToday(req[r1].api_key.id) = {u}
                              /\ u.image_count = SeedUsage.image_count

\* The generate requests that were answered 201 with key k.
Generated(k) ==
    {r \in Requests : /\ req[r].kind = "generate"
                      /\ req[r].api_key.id = k
                      /\ req[r].pc = "done"
                      /\ req[r].resp.status = 201}

\* C19: after sequential requests, the count for today of a key that only
\* generate requests used is what the first of them found (0 when it found
\* no record) plus one for each request answered 201, and a key that no
\* request used has the record it started with.
C19_OneUnitPerGeneration ==
    Sequential =>
        \A k \in KeyIds :
            /\ (UsageCalls(k) # {} /\ \A r \in UsageCalls(k) : req[r].kind = "generate")
               => /\ UsageCalls(k) = Generated(k)
                  /\ req[FirstCall(k)].fresh => req[FirstCall(k)].read_count = 0
                  /\ \E u \in RowsToday(k) :
                       /\ RowsToday(k) = {u}
                       /\ u.image_count = req[FirstCall(k)].read_count
                                            + Cardinality(Generated(k))
            /\ UsageCalls(k) = {}
               => /\ Generated(k) = {}
                  /\ RowsToday(k) \subseteq {SeedUsage}

\* C19 witness: two sequential requests with one key, on a day that started
\* without a record, were answered 201; the key's count is 2 and the usage
\* table holds no other record.
C19_Witness ==
    \E k \in KeyIds :
        /\ Sequential
        /\ Cardinality(Generated(k)) = 2
        /\ req[FirstCall(k)].fresh
        /\ \E u \in usage : RowsToday(k) = {u} /\ u.image_count = 2
        /\ usage = RowsToday(k)

Racing(k) == {r \in UsageCalls(k) : req[r].fresh}

\* C21: a uniqueness conflict between increments that race to create the
\* first record of a (key, day) pair is handled inside the increment: once
\* the calls for the pair have ended, every one that found no record has
\* returned normally and the record holds the deltas of all the calls.
C21_ConflictHandledInside ==
    \A k \in KeyIds :
        (/\ Racing(k) # {}
         /\ \A r \in UsageCalls(k) : req[r].pc = "done")
        => /\ \A r \in Racing(k) : Returned(r)
           /\ \E u \in RowsToday(k) :
                /\ RowsToday(k) = {u}
                /\ u.image_count = DeltaSum(UsageCalls(k))

\* ------------------------------------------------------ usage reports
\* The committed keys of owner o and the committed usage records of those
\* keys.
OwnKeys(o) == {k \in apiKeys : k.user_id = o}
OwnRows(o) == {u \in usage : \E k \in OwnKeys(o) : u.api_key_id = k.id}

\* The step in which request r, of kind, moves from pc from to answer.
ReportStep(r, kind, from) ==
    /\ req'[r].kind = kind
    /\ req[r].pc = from
    /\ req'[r].pc # from

\* C22: usage aggregation is isolated per owner: what the usage summary,
\* the daily usage and the per-key usage return to an owner is what they
\* return on a store that holds only that owner's keys and their usage
\* records; a key of another owner yields no data at all.
C22_ReportsSeeOwnUsageOnly ==
    [][\A r \in Requests :
         LET o == req'[r].user
             body == req'[r].body
         IN  /\ ReportStep(r, "summary", "idle")
                => body.total_images
                     = summary_total_images(OwnKeys(o), OwnRows(o), o)
             /\ ReportStep(r, "summary", "summary_key_counts")
                => /\ body.total_keys = summary_key_counts(OwnKeys(o), o).total_keys
                   /\ body.active_keys = summary_key_counts(OwnKeys(o), o).active_keys
             /\ ReportStep(r, "summary", "summary_top_keys")
                => body.top_keys \in summary_top_keys(OwnKeys(o), OwnRows(o), o)
             /\ (ReportStep(r, "daily", "idle") /\ req'[r].pc = "commit")
                => body.days = get_daily_usage(OwnKeys(o), OwnRows(o), o,
                                               req'[r].days, today)
             /\ ReportStep(r, "key_usage", "idle")
                => IF \E k \in OwnKeys(o) : k.id = req'[r].key_id
                   THEN req'[r].pc = "key_usage_total"
                   ELSE req'[r].pc = "done" /\ body = NoBody
             /\ ReportStep(r, "key_usage", "key_usage_total")
                => body.total_images
                     = SumImageCount({u \in OwnRows(o) : u.api_key_id = req'[r].key_id})
             /\ ReportStep(r, "key_usage", "key_usage_daily")
                => body.daily_usage
                     = {[usage_date |-> u.usage_date, image_count |-> u.image_count] :
                          u \in {u \in OwnRows(o) : u.api_key_id = req'[r].key_id}}]_vars

\* C22 witness: a use of the key of user 2 was counted and committed, and
\* then user 1, who holds keys with usage, read a summary whose total is
\* the total of user 1's keys alone.
C22_Witness ==
    \E r1, r2 \in Requests :
        /\ req[r1].kind = "increment" /\ req[r1].key_id = OtherKeyId
        /\ Returned(r1)
        /\ ~req[r2].overlapped /\ r1 < r2
        /\ req[r2].kind = "summary" /\ req[r2].user = 1
        /\ req[r2].pc = "done"
        /\ req[r2].body.total_images > 0
        /\ req[r2].body.total_images = SumImageCount(OwnRows(1))
        /\ SumImageCount(usage) > SumImageCount(OwnRows(1))

\* The total count of key k over all its committed usage records.
KeyTotal(k) == SumImageCount({u \in usage : u.api_key_id = k})

RECURSIVE SumKeyTotals(_)
SumKeyTotals(ks) ==
    IF ks = {} THEN 0
    ELSE LET k == CHOOSE k \in ks : TRUE
         IN  KeyTotal(k.id) + SumKeyTotals(ks \ {k})

Min(a, b) == IF a <= b THEN a ELSE b

\* C23: get_usage_summary(owner) returns as total_images the sum of the
\* counts of all usage records of the owner's keys, as total_keys the number
\* of the owner's keys, revoked ones included, as active_keys the number of
\* active ones, and as top_keys min(5, total_keys) distinct keys of the
\* owner, each with its total count (0 without usage), in non-increasing
\* order of the totals, no omitted key having a larger total than a listed
\* one.
C23_SummaryOfOwner ==
    [][\A r \in Requests :
         LET o == req'[r].user
             body == req'[r].body
             top == body.top_keys
         IN  /\ ReportStep(r, "summary", "idle")
                => body.total_images = SumKeyTotals(OwnKeys(o))
             /\ ReportStep(r, "summary", "summary_key_counts")
                => /\ body.total_keys = Cardinality(OwnKeys(o))
                   /\ body.active_keys = Cardinality({k \in OwnKeys(o) : k.is_active})
             /\ ReportStep(r, "summary", "summary_top_keys")
                => /\ Len(top) = Min(TopLimit, Cardinality(OwnKeys(o)))
                   /\ \A i \in 1..Len(top) :
                        /\ \E k \in OwnKeys(o) : top[i].key_id = k.id
                        /\ top[i].image_count = KeyTotal(top[i].key_id)
                   /\ \A i, j \in 1..Len(top) :
                        i < j => /\ top[i].key_id # top[j].key_id
                                 /\ top[i].image_count >= top[j].image_count
                   /\ \A k \in OwnKeys(o) :
                        (\A i \in 1..Len(top) : top[i].key_id # k.id)
                        => \A i \in 1..Len(top) : KeyTotal(k.id) <= top[i].image_count]_vars

\* C23 witness: an owner of more than five keys, some revoked and some never
\* used, read the summary: five keys are listed, two of them with the same
\* total, the last with none, and a key is left out.
C23_Witness ==
    \E r \in Requests :
        LET body == req[r].body
        IN  /\ req[r].kind = "summary" /\ req[r].pc = "done"
            /\ body.total_keys > TopLimit
            /\ body.active_keys < body.total_keys
            /\ Len(body.top_keys) = TopLimit
            /\ body.top_keys[2].image_count = body.top_keys[3].image_count
            /\ body.top_keys[TopLimit].image_count = 0
            /\ body.total_images > body.top_keys[1].image_count

\* C24: get_daily_usage(owner, days) returns one entry per day d with
\* today - (days - 1) <= d <= today on which a key of the owner has a usage
\* record, with the sum of the owner's counts of that day, the entries in
\* descending order of the day, and no entry for a day outside the window;
\* days below 1 or above 365 is answered 422.
C24_DailyWindow ==
    [][\A r \in Requests :
         ReportStep(r, "daily", "idle")
         => LET o == req'[r].user
                days == req'[r].days
                entries == req'[r].body.days
                Window == (today - (days - 1))..today
                OnDay(d) == {u \in OwnRows(o) : u.usage_date = d}
            IN  IF days < 1 \/ days > 365
                THEN /\ req'[r].pc = "done"
                     /\ req'[r].resp.status = 422
                     /\ req'[r].body = NoBody
                ELSE /\ req'[r].resp.status = 200
                     /\ \A d \in Window :
                          OnDay(d) # {}
                          <=> \E i \in 1..Len(entries) : entries[i].usage_date = d
                     /\ \A i \in 1..Len(entries) :
                          /\ entries[i].usage_date \in Window
                          /\ entries[i].image_count
                               = SumImageCount(OnDay(entries[i].usage_date))
                     /\ \A i, j \in 1..Len(entries) :
                          i < j => entries[i].usage_date > entries[j].usage_date]_vars

\* C24 witness: the widest window was read by an owner with a record on its
\* oldest day and one on the day before that: the first is returned, the
\* second is not, today's entry sums several keys; a window of 366 days was
\* refused.
C24_Witness ==
    \E r1, r2 \in Requests :
        LET entries == req[r1].body.days
        IN  /\ req[r1].kind = "daily" /\ req[r1].pc = "done"
            /\ req[r1].days = MaxDays
            /\ req[r1].resp.status = 200
            /\ \E u \in OwnRows(req[r1].user) : u.usage_date = today - MaxDays
            /\ Len(entries) >= 3
            /\ entries[Len(entries)].usage_date = today - (MaxDays - 1)
            /\ entries[1].usage_date = today
            /\ Cardinality({u \in OwnRows(req[r1].user) : u.usage_date = today}) > 1
            /\ req[r2].kind = "daily" /\ req[r2].days = MaxDays + 1
            /\ req[r2].resp.status = 422

\* ------------------------------------------------------ key secrets
\* The plaintexts that create responses have handed out.
Plaintexts == {c.key : c \in issued}

\* The key records a read path returned to request r.
KeysShown(r) ==
    CASE req[r].kind = "list_keys" /\ req[r].resp.status = 200 -> req[r].body.keys
      [] req[r].kind = "summary" /\ req[r].resp.status = 200 ->
             {[prefix |-> req[r].body.top_keys[i].key_prefix] @@ req[r].body.top_keys[i] :
                 i \in 1..Len(req[r].body.top_keys)}
      [] req[r].kind = "key_usage" /\ req[r].resp.status = 200 ->
             {[prefix |-> req[r].body.key_prefix] @@ req[r].body}
      [] OTHER -> {}

\* C25: the plaintext of a key is surfaced exactly once, in the response of
\* the request that created it: no key row, committed or pending, holds a
\* plaintext; the records that list keys, the usage summary and the per-key
\* usage return have no field for the plaintext or the digest, and the
\* prefix they show is the first 8 characters of a plaintext, never a whole
\* one; no other response carries a plaintext.
C25_PlaintextShownOnce ==
    /\ \A k \in apiKeys \cup UNION {tx[r].newKeys : r \in Requests} :
          /\ DOMAIN k = {"id", "user_id", "key_hash", "name", "prefix",
                         "is_active", "last_used_at", "updated_at"}
          /\ k.prefix \notin Plaintexts
          /\ Len(k.prefix) = 8
    /\ \A r \in Requests :
          /\ \A shown \in KeysShown(r) :
                /\ DOMAIN shown \cap {"key", "full_key", "key_hash"} = {}
                /\ shown.prefix \notin Plaintexts
                /\ \E t \in Plaintexts : shown.prefix = SubSeq(t, 1, 8)
          /\ req[r].resp.key # <<>>
             => /\ req[r].kind = "create_key"
                /\ req[r].resp.status = 201
                /\ \A q \in Requests \ {r} : req[q].resp.key # req[r].resp.key

\* C25 witness: a key was created, and afterwards its owner listed the keys,
\* read the summary or the key's usage; the key is shown with its prefix.
C25_Witness ==
    \E r1, r2 \in Requests :
        /\ req[r1].kind = "create_key" /\ req[r1].pc = "done"
        /\ req[r1].resp.key \in Plaintexts
        /\ req[r2].kind = "list_keys" /\ req[r2].pc = "done"
        /\ \E shown \in KeysShown(r2) :
              /\ shown.id = req[r1].resp.id
              /\ shown.prefix = SubSeq(req[r1].resp.key, 1, 8)
        /\ Cardinality(KeysShown(r2)) = 2

\* ------------------------------------------------------ hash collision
\* C26: no two key records share a key_hash, and a create whose generated
\* hash already exists fails with a handled conflict (409), not with an
\* unhandled error, and leaves no record of its own.
C26_HashConflictHandled ==
    /\ \A k1, k2 \in apiKeys : k1.key_hash = k2.key_hash => k1 = k2
    /\ \A r \in Requests :
          (req[r].kind = "create_key" /\ req[r].pc = "done"
           /\ req[r].resp.status # 201)
          => /\ req[r].resp.status = 409
             /\ \A k \in apiKeys : k.id # r

\* ------------------------------------------------------ soft delete
\* The step commits the session of a delete_key request that was answered
\* 204 for key k.
RevokeCommitted(r, k) ==
    /\ req[r].kind = "delete_key"
    /\ req[r].resp.status = 204
    /\ req[r].pc = "commit" /\ req'[r].pc = "done"
    /\ req[r].key_id = k.id

\* The keys list_keys returns to the owner of k after the step.
ListedAfter(k) == {KeyResponse(key) : key \in get_user_keys(apiKeys', k.user_id)}

C28_GeneratedKeyFormat ==
    /\ \A r \in Requests :
          (req[r].kind = "create_key" /\ req[r].resp.status = 201)
          => LET key == req[r].resp.key
                 row == req[r].api_key
             IN  /\ Len(key) = 40
                 /\ SubSeq(key, 1, 8) = <<"n", "b", "_", "l", "i", "v", "e", "_">>
                 /\ \A i \in 9..40 : key[i] \in HexDigits
                 /\ row.prefix = SubSeq(key, 1, 8)
                 /\ row.key_hash = Sha256(key)
                 /\ KeyFormatOk(key)
    /\ \A r \in Requests :
          (req[r].kind = "generate" /\ Presented(r) \in {c.key : c \in issued})
          => req[r].resp.detail \notin {"Invalid API key format",
                                        "Invalid Authorization header format"}

\* C28 witness: a key was generated and then presented to the
\* authenticator, which returned its record.
C28_Witness ==
    \E r1, r2 \in Requests :
        /\ req[r1].kind = "create_key" /\ req[r1].pc = "done"
        /\ req[r1].resp.status = 201
        /\ req[r2].kind = "generate"
        /\ Presented(r2) = req[r1].resp.key
        /\ Authenticated(r2)
        /\ req[r2].api_key.id = req[r1].resp.id

\* ------------------------------------------------------ provider errors
\* The messages that contain 429, quota or rate limit, in any case.
RateLimitTexts ==
    {<<"429", "RESOURCE_EXHAUSTED">>, <<"400", "Quota", "exceeded">>,
     <<"400", "Rate", "Limit", "reached">>}

C30_OneUserPerEmail ==
    /\ \A u1, u2 \in users : u1.email = u2.email => u1 = u2
    /\ \A r \in Requests :
          (req[r].kind = "register" /\ req[r].registered_before)
          => /\ tx[r].newUsers = {}
             /\ \A u \in users : u.id # NewUserId(r)
             /\ req[r].pc = "done"
                => req[r].resp = Resp(409, "Email already registered")

\* C30 witness: a register request created a user, and a later one for the
\* same address, which arrived when the first was committed, was answered
\* 409; one user has the address.
C30_Witness ==
    \E r1, r2 \in Requests :
        /\ req[r1].kind = "register" /\ req[r1].resp.status = 201
        /\ req[r2].kind = "register" /\ req[r2].email = req[r1].email
        /\ req[r2].registered_before
        /\ req[r2].resp = Resp(409, "Email already registered")
        /\ Cardinality({u \in users : u.email = req[r1].email}) = 1

\* --------------------------------------------- authentication stages
\* The stages of the authenticator for the header of request r, each as the
\* code tests it: the header is there; it is "<scheme> <credential>" with
\* the scheme bearer and the credential starts with nb_live_ and has 40
\* characters; a key with the credential's digest was committed when the
\* store was queried; that key was active then.
StagePresence(r) == req[r].header.present
StageFormat(r) ==
    /\ Len(req[r].header.parts) = 2
    /\ req[r].header.parts[1] \in {"Bearer", "bearer"}
    /\ Len(req[r].header.parts[2]) = KeyLen
    /\ SubSeq(req[r].header.parts[2], 1, PrefixLen) = NbLive
StageResolved(r) ==
    {k \in apiKeys : /\ k.key_hash = Sha256(req[r].header.parts[2])
                     /\ \E m \in req[r].seen : m.id = k.id}
StageActive(r) ==
    \E k \in StageResolved(r) : [id |-> k.id, is_active |-> TRUE] \in req[r].seen

\* C31: the authenticator goes through presence, header and key format,
\* resolution by hash and active status in that order; the first stage that
\* fails gives the response and ends the request with nothing written; the
\* store is queried only when presence and format passed, and last_used_at
\* is touched only when all four stages passed.
C31_StagesInOrder ==
    \A r \in Requests :
        req[r].kind = "generate"
        => LET Ends(detail) == /\ req[r].pc = "done"
                               /\ req[r].resp.detail = detail
                               /\ req[r].touched_at = Null
                               /\ req[r].api_key = NoRow
                               /\ tx[r] = NoTx
           IN  /\ req[r].looked_up => StagePresence(r) /\ StageFormat(r)
               /\ req[r].touched_at # Null
                  => /\ StagePresence(r) /\ StageFormat(r)
                     /\ StageResolved(r) # {} /\ StageActive(r)
               /\ IF ~StagePresence(r)
                  THEN Ends("Missing Authorization header") /\ ~req[r].looked_up
                  ELSE IF Len(req[r].header.parts) # 2
                          \/ req[r].header.parts[1] \notin {"Bearer", "bearer"}
                  THEN /\ Ends("Invalid Authorization header format")
                       /\ ~req[r].looked_up
                  ELSE IF ~StageFormat(r)
                  THEN Ends("Invalid API key format") /\ ~req[r].looked_up
                  ELSE IF StageResolved(r) = {}
                  THEN Ends("Invalid API key") /\ req[r].looked_up
                  ELSE IF ~StageActive(r)
                  THEN Ends("API key has been revoked") /\ req[r].looked_up
                  ELSE req[r].looked_up /\ req[r].api_key \in
                          {[k EXCEPT !.last_used_at = req[r].api_key.last_used_at,
                                     !.updated_at = req[r].api_key.updated_at,
                                     !.is_active = TRUE] : k \in StageResolved(r)}

\* C31 witness: the credential of a committed, active key sent under the
\* scheme Basic was refused for the header format without a query of the
\* store, and another request passed all four stages and touched its key.
C31_Witness ==
    \E r1, r2 \in Requests :
        /\ req[r1].kind = "generate"
        /\ req[r1].header.present /\ Len(req[r1].header.parts) = 2
        /\ req[r1].header.parts[1] = "Basic"
        /\ \E k \in apiKeys : /\ k.key_hash = Sha256(req[r1].header.parts[2])
                              /\ k.is_active
        /\ req[r1].resp.detail = "Invalid Authorization header format"
        /\ ~req[r1].looked_up
        /\ req[r2].kind = "generate" /\ req[r2].touched_at # Null

\* ------------------------------------------------- usage call frame
\* The usage records of key k for the day d.
RowsOf(rows, k, d) == {u \in rows : u.api_key_id = k /\ u.usage_date = d}

\* The (key, day) pairs that have a record before or after the step.
UsagePairs == {<<u.api_key_id, u.usage_date>> : u \in usage \cup usage'}

\* C32: a call of increment_usage or record_usage for key K leaves every
\* usage record other than K's record for today as it was: what the call
\* flushes into its session concerns only (K, today), and when its session
\* is committed the records of K for other days and of every other key for
\* any day are the same as before.
C32_UsageCallFrame ==
    [][/\ \A r \in Requests :
            req'[r].usage_call
            => /\ \A u \in tx'[r].newUsage :
                     u.api_key_id = UsageKey(r)' /\ u.usage_date = today
               /\ \A w \in tx'[r].usageUpd : \A u \in usage :
                     u.id = w.id
                     => u.api_key_id = UsageKey(r)' /\ u.usage_date = today
       /\ usage' # usage
          => \E r \in Requests :
                /\ req[r].usage_call
                /\ req[r].pc = "commit" /\ req'[r].pc = "done"
                /\ \A pair \in UsagePairs :
                      pair # <<UsageKey(r), today>>
                      => RowsOf(usage', pair[1], pair[2])
                           = RowsOf(usage, pair[1], pair[2])]_vars

\* C32 witness: a generate request and an increment_usage call for the key
\* of user 1 are committed, that key's count for today has grown, and the
\* records of yesterday and of the other key are the ones the ledger
\* started with.
C32_Witness ==
    /\ \E r1, r2 \in Requests :
          /\ req[r1].kind = "generate" /\ req[r2].kind = "increment"
          /\ Returned(r1) /\ Returned(r2)
          /\ UsageKey(r1) = SeedKeyId /\ UsageKey(r2) = SeedKeyId
    /\ \E u \in RowsToday(SeedKeyId) : u.image_count >= 2
    /\ CounterRows \subseteq usage

\* ------------------------------------------------- limit scenario
\* The generate requests before request r that recorded a use of key k.
RecordedBefore(r, k) ==
    {q \in Requests : /\ q < r
                      /\ req[q].kind = "generate"
                      /\ req[q].resp.status = 201
                      /\ req[q].api_key.id = k}

\* C33: for a freshly issued key and a limit L >= 1, with calls that follow
\* one another within a day, check_daily_limit returns (true, 0) before any
\* use, (true, i) after i < L recorded uses and (false, L) after exactly L,
\* and after i >= 1 recorded uses the usage of the key is the single record
\* (today, i).
C33_CheckFollowsRecordedUses ==
    Sequential =>
        /\ \A r \in Requests :
              Checked(r)
              => LET i == Cardinality(RecordedBefore(r, req[r].key_id))
                     L == req[r].daily_limit
                 IN  /\ req[r].body.current_usage = i
                     /\ i < L => req[r].body.is_within_limit
                     /\ i = L => ~req[r].body.is_within_limit
        /\ LET n == Cardinality(RecordedBefore(MaxReq + 1, SeedKeyId))
           IN  IF n = 0 THEN usage = {}
               ELSE \E u \in usage :
                       /\ usage = {u}
                       /\ u.api_key_id = SeedKeyId
                       /\ u.usage_date = today
                       /\ u.image_count = n

\* C33 witness: the key was used once, the check with limit 1 that followed
\* returned (false, 1), and the usage table is the single record (today, 1).
C33_Witness ==
    \E r1, r2 \in Requests : \E u \in usage :
        /\ Sequential
        /\ r1 < r2
        /\ req[r1].kind = "generate" /\ req[r1].resp.status = 201
        /\ Checked(r2) /\ req[r2].daily_limit = 1
        /\ req[r2].body = [is_within_limit |-> FALSE, current_usage |-> 1]
        /\ usage = {u}
        /\ u.api_key_id = SeedKeyId /\ u.usage_date = today /\ u.image_count = 1

\* ------------------------------------------------- two usage functions
\* The usage table rows after the statement w of a usage call is flushed
\* and committed.
TableAfter(rows, w) ==
    IF w.op = "insert" THEN rows \cup {w.row}
    ELSE {u \in rows : u.id # w.row.id} \cup {w.row}

\* C34: record_usage(key) and increment_usage(key, count=1), started from
\* the same usage table on the same day, leave the same table, for a key
\* without a record for today and for a key with one.
C34_RecordIsIncrementByOne ==
    \A k \in KeyIds :
        LET usage_record == select_usage(usage, k, today)
            new_id == 0
        IN  TableAfter(usage, record_usage(usage_record, new_id, k, today))
              = TableAfter(usage, increment_usage(usage_record, new_id, k, today,
                                                  DefaultCount))

\* C34 witness: on one key, a generate request recorded a use when there
\* was no record for today and an increment_usage call with the default
\* count then added to that record; each counted one.
C34_Witness ==
    \E r1, r2 \in Requests : \E u \in usage :
        /\ req[r1].kind = "generate" /\ Returned(r1) /\ req[r1].fresh
        /\ req[r2].kind = "increment" /\ Returned(r2) /\ ~req[r2].fresh
        /\ req[r2].count = DefaultCount
        /\ UsageKey(r1) = UsageKey(r2)
        /\ RowsToday(UsageKey(r1)) = {u}
        /\ u.image_count = 2

\* ------------------------------------------------- count domain
\* C35: the count of every usage record, committed or flushed into a
\* session, is a non-negative integer in every reachable state, whatever
\* counts increment_usage is called with and however often record_usage is
\* called.
C35_CountsNonNegative ==
    /\ \A u \in usage : u.image_count >= 0
    /\ \A r \in Requests : \A u \in UsageView(r) : u.image_count >= 0

\* ------------------------------------------------- enforced limit
\* The limit the gated handlers pass (0 while none has checked).
GateLimit ==
    IF \E r \in Requests : req[r].daily_limit > 0
    THEN req[CHOOSE r \in Requests : req[r].daily_limit > 0].daily_limit
    ELSE 0

RevokedWhenStarted(r) ==
    {c.id : c \in {c \in IssuedBy(Presented(r)) :
                     [id |-> c.id, is_active |-> FALSE] \in req[r].seen}}

\* The keys whose usage, summed over their committed records, grows in the
\* step.
UsageGrows ==
    {k \in KeyIds : SumImageCount({u \in usage' : u.api_key_id = k})
                      > SumImageCount({u \in usage : u.api_key_id = k})}

\* C37: a request that starts authenticating when the revocation of its key
\* is committed ends there: it never calls record_usage and never holds a
\* write; and whenever a request's commit makes the usage of a key grow,
\* that request authenticated while the key was still active.
C37_NoUseAfterRevocation ==
    [][/\ \A r \in Requests :
            RevokedWhenStarted(r)' # {}
            => /\ req'[r].pc = "done"
               /\ req'[r].resp.status = 401
               /\ ~req'[r].usage_call /\ ~req'[r].generated
               /\ tx'[r] = NoTx
       /\ \A r \in Requests :
            (req[r].kind = "generate" /\ req[r].pc = "commit" /\ req'[r].pc = "done")
            => \A k \in UsageGrows :
                  /\ k = req[r].api_key.id
                  /\ [id |-> k, is_active |-> TRUE] \in req[r].seen
                  /\ k \notin RevokedWhenStarted(r)]_vars

\* C37 witness: the owner's revoke of a key is committed, and a generate
\* request that presented the key afterwards was refused without a usage
\* call; the key's usage is what it was.
C37_Witness ==
    \E r1, r2 \in Requests :
        /\ req[r1].kind = "delete_key" /\ req[r1].pc = "done"
        /\ req[r1].resp.status = 204 /\ req[r1].key_id = SeedKeyId
        /\ req[r2].kind = "generate" /\ req[r2].pc = "done"
        /\ SeedKeyId \in RevokedWhenStarted(r2)
        /\ ~req[r2].usage_call
        /\ usage = {SeedUsage}

\* ------------------------------------------------- repeated revoke
\* The step is the arrival of a revoke of request r by the owner of a key
\* whose revocation is committed.
RevokesAgain(r) ==
    /\ req[r].kind = "idle" /\ req'[r].kind = "delete_key"
    /\ \E k \in apiKeys : /\ k.id = req'[r].key_id
                          /\ k.user_id = req'[r].user
                          /\ ~k.is_active

\* C38: revoke_key for a key of the caller that is already revoked finds
\* the key, writes nothing and returns True again (delete_key answers 204),
\* and the commit of that request leaves every key row and every usage
\* record as the first revoke left them.
C38_RevokeIdempotent ==
    [][\A r \in Requests :
         /\ RevokesAgain(r)
            => /\ req'[r].pc = "revoke_flush"
               /\ req'[r].api_key \in apiKeys
               /\ ~req'[r].api_key.is_active
         /\ (/\ req[r].kind = "delete_key" /\ req[r].pc = "revoke_flush"
             /\ req'[r] # req[r]
             /\ ~req[r].api_key.is_active)
            => /\ req'[r].pc = "commit"
               /\ req'[r].resp.status = 204
               /\ tx'[r] = NoTx
         /\ (/\ req[r].kind = "delete_key" /\ req[r].pc = "commit"
             /\ req'[r].pc = "done" /\ tx[r] = NoTx)
            => /\ req'[r].resp.status = 204
               /\ apiKeys' = apiKeys /\ usage' = usage]_vars

\* C38 witness: the owner revoked an active key, and after that revoke was
\* committed revoked it again; both were answered 204 and the key row is
\* the one the first revoke left.
C38_Witness ==
    \E r1, r2 \in Requests : \E k \in apiKeys :
        /\ r1 < r2 /\ ~req[r2].overlapped
        /\ \A r \in {r1, r2} :
              /\ req[r].kind = "delete_key" /\ req[r].pc = "done"
              /\ req[r].key_id = k.id /\ req[r].user = k.user_id
              /\ req[r].resp.status = 204
        /\ k = [SeedKey EXCEPT !.is_active = FALSE, !.updated_at = 1]

\* ------------------------------------------- failed authentication
\* The stage at which the authenticator refuses the header of request r,
\* "none" when the header passes all four.
FailedStage(r) ==
    IF ~StagePresence(r) THEN "missing header"
    ELSE IF Len(req[r].header.parts) # 2
            \/ req[r].header.parts[1] \notin {"Bearer", "bearer"}
    THEN "bad header format"
    ELSE IF ~StageFormat(r) THEN "bad key format"
    ELSE IF StageResolved(r) = {} THEN "unknown key"
    ELSE IF ~StageActive(r) THEN "revoked key"
    ELSE "none"

\* C39: an authentication attempt that fails at a stage (missing header, bad
\* header format, bad key format, unknown key, revoked key) is answered 401
\* in that step, and the step leaves every key row (last_used_at and
\* is_active among its columns) and every usage record as they were; the
\* request ends there with no write in its session, so its session's end
\* changes nothing either.
C39_FailedAuthChangesNothing ==
    [][\A r \in Requests :
          (/\ req'[r].kind = "generate" /\ req'[r] # req[r]
           /\ FailedStage(r)' # "none")
          => /\ req[r].kind = "idle"
             /\ req'[r].pc = "done"
             /\ req'[r].resp.status = 401
             /\ req'[r].touched_at = Null
             /\ tx'[r] = NoTx
             /\ apiKeys' = apiKeys
             /\ usage' = usage
             /\ \A q \in Requests : tx'[q] = tx[q]]_vars

\* C39 witness: on a store with a revoked, never used key and one usage
\* record, one request presented the revoked key and one sent a credential
\* of the wrong length; both were refused, and the key and the usage record
\* are as they were.
C39_Witness ==
    \E r1, r2 \in Requests :
        /\ req[r1].kind = "generate" /\ req[r1].pc = "done"
        /\ FailedStage(r1) = "revoked key"
        /\ req[r1].resp = Unauthorized("API key has been revoked")
        /\ req[r2].kind = "generate" /\ req[r2].pc = "done"
        /\ FailedStage(r2) = "bad key format"
        /\ req[r2].resp = Unauthorized("Invalid API key format")
        /\ apiKeys = {[SeedKey EXCEPT !.is_active = FALSE]}
        /\ usage = {SeedUsage}

\* ------------------------------------------------ summary key counts
\* The summary of owner o on the committed store: what get_usage_summary
\* returns to a request that runs alone.
SummaryCounts(o) == summary_key_counts(apiKeys, o)
SummaryImages(o) == summary_total_images(apiKeys, usage, o)

\* The commit of request r, a create_key that issued a key.
Issues(r) ==
    /\ req[r].kind = "create_key" /\ req[r].resp.status = 201
    /\ req[r].pc = "commit" /\ req'[r].pc = "done"

\* The commit of request r, a delete_key that revoked (or revoked again).
Revokes(r) ==
    /\ req[r].kind = "delete_key" /\ req[r].resp.status = 204
    /\ req[r].pc = "commit" /\ req'[r].pc = "done"

\* The revocation r commits is the first of its key: the key is committed
\* as active until this commit.
FirstRevoke(r) == \E k \in apiKeys : k.id = req[r].key_id /\ k.is_active

\* C40: the summary of every owner has 0 <= active_keys <= total_keys, on
\* the committed store and in every summary a request has read; the commit
\* of an issued key raises total_keys and active_keys of its owner by one,
\* the commit of the first revocation of a key lowers active_keys of its
\* owner by one and keeps total_keys, a repeated revocation changes neither,
\* other owners' counts stay, and total_images of every owner is unchanged
\* by both.
C40_SummaryKeyCounts ==
    /\ [](/\ \A o \in Users :
                /\ 0 <= SummaryCounts(o).active_keys
                /\ SummaryCounts(o).active_keys <= SummaryCounts(o).total_keys
          /\ \A r \in Requests :
                (req[r].kind = "summary" /\ req[r].pc # "summary_key_counts")
                => /\ 0 <= req[r].body.active_keys
                   /\ req[r].body.active_keys <= req[r].body.total_keys)
    /\ [][\A r \in Requests : \A o \in Users :
            LET own == IF o = req[r].user THEN 1 ELSE 0
            IN  /\ Issues(r)
                   => /\ SummaryCounts(o)'.total_keys
                           = SummaryCounts(o).total_keys + own
                      /\ SummaryCounts(o)'.active_keys
                           = SummaryCounts(o).active_keys + own
                      /\ SummaryImages(o)' = SummaryImages(o)
                /\ Revokes(r)
                   => /\ SummaryCounts(o)'.total_keys = SummaryCounts(o).total_keys
                      /\ SummaryCounts(o)'.active_keys
                           = SummaryCounts(o).active_keys
                               - (IF FirstRevoke(r) THEN own ELSE 0)
                      /\ SummaryImages(o)' = SummaryImages(o)]_vars

\* C40 witness: user 1 holds the seed key with its one counted image and
\* was issued a second key, and the seed key was revoked: the
\* summary of user 1 has two keys, one of them active, and one image.
C40_Witness ==
    \E r1, r2 \in Requests :
        /\ req[r1].kind = "create_key" /\ req[r1].pc = "done"
        /\ req[r1].user = 1 /\ req[r1].resp.status = 201
        /\ req[r2].kind = "delete_key" /\ req[r2].pc = "done"
        /\ req[r2].key_id = SeedKeyId /\ req[r2].resp.status = 204
        /\ [SeedKey EXCEPT !.is_active = FALSE, !.updated_at = 1] \in apiKeys
        /\ SummaryCounts(1) = [total_keys |-> 2, active_keys |-> 1]
        /\ SummaryImages(1) = 1

====
